---- MODULE Spec2Model ----
(***************************************************************************)
(* TileNotes: the note/task state synchronizer (TileNotesApp), the         *)
(* enrichment scheduler (processNoteInBackground, AIProcessor) and the     *)
(* remote store they talk to.                                              *)
(*                                                                         *)
(* Every remote call is an asynchronous round trip.  A request takes       *)
(* effect in the remote store in the step that issues it; its response is  *)
(* a message that the client handles in a later step, and responses of     *)
(* different calls are handled in any order.                               *)
(***************************************************************************)
EXTENDS Integers, Sequences, FiniteSets, TLC

\* ------------------------------------------------------------------ bounds
\* notes created in one run
MaxCreates == 1
\* user interactions (create, edit, delete, open, save, ...) and session
\* events in one run
MaxOps == 3
\* remote calls of the synchronizer awaiting their response at one time
MaxInflight == 2
\* session events that re-run the load effect
MaxReloads == 1
\* remote calls that fail in one run
MaxFailures == 1

\* ------------------------------------------------------- program constants
\* content.trim().length > 10
MinContentLen == 10
\* content.length > 100
SummaryMinLen == 100
\* .slice(0, 5)
MaxTags == 5

UserId == "u1"
NoSummary == "null"

\* ------------------------------------------------------------ text helpers
\* A text is a sequence of one-character strings.
Rep(c, n) == [i \in 1..n |-> c]

\* the white space the modelled texts use: the blank and the line feed
IsSpace(c) == c \in {" ", "\n"}

RECURSIVE TrimStart(_)
TrimStart(s) ==
  IF s = <<>> THEN <<>>
  ELSE IF IsSpace(Head(s)) THEN TrimStart(Tail(s)) ELSE s

RECURSIVE TrimEnd(_)
TrimEnd(s) ==
  IF s = <<>> THEN <<>>
  ELSE IF IsSpace(s[Len(s)]) THEN TrimEnd(SubSeq(s, 1, Len(s) - 1)) ELSE s

\* a length test that forgets trim()
TrimIdentity(s) == s

\* String.prototype.trim
Trim(s) == TrimEnd(TrimStart(s))

\* data.content && data.content.trim().length > 10
LongEnough(content) == content # <<>> /\ Len(Trim(content)) > MinContentLen

\* ten letters between two blanks: raw length 12, trimmed length 10
PaddedContent == <<" ">> \o Rep("a", MinContentLen) \o <<" ">>
\* "**do it** now ok": one bold span, trimmed length 16
TaskContent ==
  <<"*", "*", "d", "o", " ", "i", "t", "*", "*", " ", "n", "o", "w", " ", "o", "k">>
\* "this note matters": 17 characters, no bold span
PlainContent ==
  <<"t", "h", "i", "s", " ", "n", "o", "t", "e", " ",
    "m", "a", "t", "t", "e", "r", "s">>

CreateContents == {PaddedContent, TaskContent}
Titles == {"t1"}

\* ------------------------------------------------------------------ notes
\* A Note as the client holds it and as the notes table stores it.
\* created_at is the store's clock at insert; ai_processed_at is TRUE once set.
\* createNote fills tags: [], color: '#FFFACD', position_x: 0, position_y: 0
\* when the caller gives none, and FloatingAddButton gives none.
DefaultColor == "#FFFACD"
NewNote(id, t, c, p) ==
  [id |-> id, user_id |-> UserId, created_at |-> id, title |-> t,
   content |-> c, pinned |-> p,
   tags |-> <<>>, color |-> DefaultColor, position_x |-> 0, position_y |-> 0,
   ai_tags |-> <<>>, ai_summary |-> NoSummary, ai_processed_at |-> FALSE]

\* { ...note, ...updates }: the fields of u replace those of note
Merge(note, u) ==
  [f \in DOMAIN note |-> IF f \in DOMAIN u THEN u[f] ELSE note[f]]

Undefined == "undefined"

\* JSON.stringify drops the keys whose value is undefined: they are not sent
Wire(u) ==
  [f \in {g \in DOMAIN u : ~(g = "ai_summary" /\ u[g] = Undefined)} |-> u[f]]

Ids(s) == {s[i].id : i \in 1..Len(s)}

RECURSIVE SelectSeq2(_, _)
\* Array.prototype.filter on the pinned flag
SelectSeq2(s, wantPinned) ==
  IF s = <<>> THEN <<>>
  ELSE IF Head(s).pinned = wantPinned
       THEN <<Head(s)>> \o SelectSeq2(Tail(s), wantPinned)
       ELSE SelectSeq2(Tail(s), wantPinned)

PinnedOf(s) == SelectSeq2(s, TRUE)
UnpinnedOf(s) == SelectSeq2(s, FALSE)

\* a handler that forgets the filter
KeepAll(s, id) == s

RECURSIVE WithoutId(_, _)
\* prev.filter(note => note.id !== id)
WithoutId(s, id) ==
  IF s = <<>> THEN <<>>
  ELSE IF Head(s).id = id THEN WithoutId(Tail(s), id)
       ELSE <<Head(s)>> \o WithoutId(Tail(s), id)

\* prev.map(note => note.id === id ? data : note)
ReplaceId(s, id, data) == [i \in 1..Len(s) |-> IF s[i].id = id THEN data ELSE s[i]]

\* prev.map(n => n.id === id ? { ...n, ...updates } : n)
MergeId(s, id, u) == [i \in 1..Len(s) |-> IF s[i].id = id THEN Merge(s[i], u) ELSE s[i]]

\* the comparator of updateNote's re-sort
UpdateCmp(a, b) ==
  IF a.pinned /\ ~b.pinned THEN -1
  ELSE IF ~a.pinned /\ b.pinned THEN 1
  ELSE b.created_at - a.created_at

RECURSIVE InsertByUpdateCmp(_, _)
InsertByUpdateCmp(s, x) ==
  IF s = <<>> THEN <<x>>
  ELSE IF UpdateCmp(x, s[Len(s)]) < 0
       THEN Append(InsertByUpdateCmp(SubSeq(s, 1, Len(s) - 1), x), s[Len(s)])
       ELSE Append(s, x)

RECURSIVE SortNotes(_)
\* Array.prototype.sort (stable) under UpdateCmp
SortNotes(s) ==
  IF s = <<>> THEN <<>>
  ELSE InsertByUpdateCmp(SortNotes(SubSeq(s, 1, Len(s) - 1)), s[Len(s)])

\* the positions of s in some order
Orders(n) == {p \in [1..n -> 1..n] : \A i, j \in 1..n : i # j => p[i] # p[j]}

\* SearchAndFilter.applyFilters with the default filter state: every note,
\* sorted by created_at descending.  Its comparator never answers 0, so the
\* order of two notes with the same created_at is the engine's choice.
ApplyFilters(s) ==
  {[i \in 1..Len(s) |-> s[p[i]]] : p \in
     {q \in Orders(Len(s)) :
        \A i, j \in 1..Len(s) : i < j => s[q[i]].created_at >= s[q[j]].created_at}}

\* ------------------------------------------------------------- enrichment
\* String.prototype.toLowerCase on the letters the model's texts use
\* toLowerCase on the capitals the modelled texts use
LowerChar(c) ==
  CASE c = "T" -> "t" [] c = "O" -> "o" [] c = "D" -> "d"
    [] c = "A" -> "a" [] c = "S" -> "s" [] c = "K" -> "k" [] OTHER -> c
Lower(s) == [i \in 1..Len(s) |-> LowerChar(s[i])]

\* the least index of hits from i on, or one past the end of s: where a
\* pattern first matches
FirstFrom(s, i, hits) ==
  LET from == {k \in hits : k >= i}
  IN IF from = {} THEN Len(s) + 1
     ELSE CHOOSE k \in from : \A j \in from : k <= j

\* \s*: the first index at or after i that holds no white space
PastSpaces(s, i) == FirstFrom(s, i, {k \in i..Len(s) : ~IsSpace(s[k])})

\* the index of the last character before the next white space, from i on
WordEnd(s, i) == FirstFrom(s, i, {k \in i..Len(s) : IsSpace(s[k])}) - 1

RECURSIVE SplitWs(_, _)
\* split(/\s+/), from the word that starts at i on: a run of white space
\* ends a word; white space at either end of s leaves an empty word there
SplitWs(s, i) ==
  LET e == WordEnd(s, i)
  IN IF e >= Len(s) THEN <<SubSeq(s, i, e)>>
     ELSE <<SubSeq(s, i, e)>> \o SplitWs(s, PastSpaces(s, e + 1))

\* the entries of commonWords longer than three characters (shorter ones
\* are already dropped by word.length > 3)
CommonWords ==
  { <<"w","i","t","h">>, <<"w","e","r","e">>, <<"b","e","e","n">>,
    <<"h","a","v","e">>, <<"d","o","e","s">>, <<"w","i","l","l">>,
    <<"w","o","u","l","d">>, <<"c","o","u","l","d">>,
    <<"s","h","o","u","l","d">>, <<"m","i","g","h","t">>,
    <<"t","h","i","s">>, <<"t","h","a","t">>, <<"t","h","e","s","e">>,
    <<"t","h","o","s","e">>, <<"t","h","e","y">>, <<"t","h","e","m">> }

RECURSIVE FirstOccurrences(_, _)
\* filter((word, index, arr) => arr.indexOf(word) === index)
FirstOccurrences(s, seen) ==
  IF s = <<>> THEN <<>>
  ELSE IF Head(s) \in seen THEN FirstOccurrences(Tail(s), seen)
       ELSE <<Head(s)>> \o FirstOccurrences(Tail(s), seen \cup {Head(s)})

Take(s, n) == SubSeq(s, 1, IF Len(s) < n THEN Len(s) ELSE n)

\* words longer than 3 characters that are no common word, first occurrence
\* of each, at most five
MeaningfulWords(content) ==
  Take(FirstOccurrences(
         SelectSeq(SplitWs(Lower(content), 1),
                   LAMBDA w : Len(w) > 3 /\ w \notin CommonWords),
         {}),
       MaxTags)

IsStars(s, i) == i + 1 <= Len(s) /\ s[i] = "*" /\ s[i + 1] = "*"

RECURSIVE FindStars(_, _)
\* the first index at or after i where "**" starts, 0 when there is none
FindStars(s, i) ==
  IF i + 1 > Len(s) THEN 0
  ELSE IF IsStars(s, i) THEN i ELSE FindStars(s, i + 1)

RECURSIVE BoldFrom(_, _)
\* content.match(/\*\*(.*?)\*\*/g) with the asterisk pairs removed
BoldFrom(s, i) ==
  LET p == FindStars(s, i)
      q == IF p = 0 THEN 0 ELSE FindStars(s, p + 2)
  IN IF p = 0 \/ q = 0 THEN <<>>
     ELSE <<SubSeq(s, p + 2, q - 1)>> \o BoldFrom(s, q + 2)

BoldMatches(content) == BoldFrom(content, 1)

\* the summary of the simulated run, for content longer than 100 characters
SummaryOf(content) == IF Len(content) > SummaryMinLen THEN "summary" ELSE Undefined

\* AIProcessor.processNote, the locally computed results
SimulatedResults(content) ==
  [tags |-> MeaningfulWords(content), summary |-> SummaryOf(content),
   tasks |-> BoldMatches(content)]

WorkTag == <<"w", "o", "r", "k">>
CallPhrase == <<"c", "a", "l", "l">>

\* what processNoteWithAI can return once validated: up to five tags, a
\* summary or undefined, any list of task phrases (the service may repeat
\* a phrase)
ServiceResults ==
  { [tags |-> <<WorkTag>>, summary |-> Undefined, tasks |-> <<>>],
    [tags |-> <<WorkTag>>, summary |-> "summary", tasks |-> <<CallPhrase>>] }

\* ----------------------------------------- enrichment: lib/openai fallback
\* extractBasicTags: .slice(0, 5)
MaxBasicTags == 5
\* extractBasicTasks: .slice(0, 5)
MaxBasicTasks == 5
\* the catch block of processNoteWithAI: content.length > 100
ExcerptLen == 100
\* the validated answer: parsed.tags.slice(0, 5)
MaxServiceTags == 5

\* a tag filter without the indexOf test
RepeatedBasicTags(content) ==
  Take(SelectSeq(SplitWs(Lower(content), 1),
                 LAMBDA w : Len(w) > 3 /\ w \notin CommonWords),
       MaxBasicTags)

\* extractBasicTags: lower-cased, split at white space; words longer than 3
\* characters that are no common word; first occurrence of each; at most five
ExtractBasicTags(content) ==
  Take(FirstOccurrences(
         SelectSeq(SplitWs(Lower(content), 1),
                   LAMBDA w : Len(w) > 3 /\ w \notin CommonWords),
         {}),
       MaxBasicTags)

\* s has pat at index i; fold compares without regard to case (the i flag)
HasAt(s, i, pat, fold) ==
  /\ i >= 1 /\ i + Len(pat) - 1 <= Len(s)
  /\ \A k \in 1..Len(pat) :
       (IF fold THEN LowerChar(s[i + k - 1]) ELSE s[i + k - 1]) = pat[k]

\* the first index at or after i where pat starts, 0 when there is none
FindAt(s, i, pat, fold) ==
  LET k == FirstFrom(s, i, {j \in i..Len(s) : HasAt(s, j, pat, fold)})
  IN IF k > Len(s) THEN 0 ELSE k

\* (.*): the index of the last character before the next line feed, from i on
LineEnd(s, i) == FirstFrom(s, i, {k \in i..Len(s) : s[k] = "\n"}) - 1

Stars == <<"*", "*">>
Box == <<"[", " ", "]">>
BoxPrefix == <<"-", " ", "[", " ", "]", " ">>
Todo == <<"t", "o", "d", "o">>
Task == <<"t", "a", "s", "k">>

RECURSIVE BoldSpans(_, _)
\* content.match(/\*\*(.*?)\*\*/g): the matches with their asterisks; a span
\* does not run over a line feed
BoldSpans(s, i) ==
  LET p == FindAt(s, i, Stars, FALSE)
      q == IF p = 0 THEN 0 ELSE FindAt(s, p + 2, Stars, FALSE)
  IN IF p = 0 \/ q = 0 THEN <<>>
     ELSE IF LineEnd(s, p + 2) < q - 1 THEN BoldSpans(s, p + 1)
     ELSE <<SubSeq(s, p, q + 1)>> \o BoldSpans(s, q + 2)

RECURSIVE BoxLines(_, _)
\* content.match(/- \[ \] (.*)/g)
BoxLines(s, i) ==
  LET p == FindAt(s, i, BoxPrefix, FALSE)
      e == LineEnd(s, p + Len(BoxPrefix))
  IN IF p = 0 THEN <<>> ELSE <<SubSeq(s, p, e)>> \o BoxLines(s, e + 1)

RECURSIVE KeywordLines(_, _, _)
\* content.match(/TODO:?\s*(.*)/gi), and the same for TASK
KeywordLines(s, i, word) ==
  LET p == FindAt(s, i, word, TRUE)
      c == IF HasAt(s, p + Len(word), <<":">>, FALSE)
           THEN p + Len(word) + 1 ELSE p + Len(word)
      e == LineEnd(s, PastSpaces(s, c))
  IN IF p = 0 THEN <<>> ELSE <<SubSeq(s, p, e)>> \o KeywordLines(s, e + 1, word)

RECURSIVE Cleaned(_, _)
\* match.replace(/\*\*|\[ \]|TODO:?|TASK:?|-/gi, ''), from index i on
Cleaned(m, i) ==
  IF i > Len(m) THEN <<>>
  ELSE IF HasAt(m, i, Stars, FALSE) THEN Cleaned(m, i + 2)
  ELSE IF HasAt(m, i, Box, FALSE) THEN Cleaned(m, i + 3)
  ELSE IF HasAt(m, i, Todo, TRUE) \/ HasAt(m, i, Task, TRUE)
       THEN Cleaned(m, IF HasAt(m, i + 4, <<":">>, FALSE) THEN i + 5 ELSE i + 4)
  ELSE IF m[i] = "-" THEN Cleaned(m, i + 1)
  ELSE <<m[i]>> \o Cleaned(m, i + 1)

\* the matches of the four patterns, pattern by pattern, as forEach visits them
TaskMatches(content) ==
  BoldSpans(content, 1) \o BoxLines(content, 1)
    \o KeywordLines(content, 1, Todo) \o KeywordLines(content, 1, Task)

\* a fallback that pushes every cleaned match and returns them all
EveryPhrase(content) ==
  LET ms == TaskMatches(content)
  IN SelectSeq([i \in 1..Len(ms) |-> Trim(Cleaned(ms[i], 1))],
               LAMBDA ph : Len(ph) > 3)

\* extractBasicTasks: cleaned.length > 3, then
\* Array.from(new Set(tasks)).slice(0, 5)
ExtractBasicTasks(content) ==
  LET ms == TaskMatches(content)
  IN Take(FirstOccurrences(
            SelectSeq([i \in 1..Len(ms) |-> Trim(Cleaned(ms[i], 1))],
                      LAMBDA ph : Len(ph) > 3),
            {}),
          MaxBasicTasks)

\* content.length > 100 ? content.substring(0, 100) + '...' : undefined; the
\* excerpt is not looked into by anything modelled
ExcerptOf(content) == IF Len(content) > ExcerptLen THEN "excerpt" ELSE Undefined

\* a catch block that returns an empty result
EmptyResults(content) == [tags |-> <<>>, summary |-> Undefined, tasks |-> <<>>]

\* processNoteWithAI's catch block: "Fallback to basic processing"
FallbackResults(content) ==
  [tags |-> ExtractBasicTags(content), summary |-> ExcerptOf(content),
   tasks |-> ExtractBasicTasks(content)]

\* how the call of the completion service ends: it throws, it answers without
\* content, its content is no JSON, or its content parses
CallFailures == {"throws", "empty", "invalid"}
Outcomes ==
  {[kind |-> k, parsed |-> [tags |-> <<>>, summary |-> Undefined, tasks |-> <<>>]]
     : k \in CallFailures}
    \cup {[kind |-> "parsed", parsed |-> r] : r \in ServiceResults}

\* "Validate and clean the response": tags.slice(0, 5); the summaries of
\* ServiceResults are already longer than 10 characters or undefined
Validated(parsed) ==
  [tags |-> Take(parsed.tags, MaxServiceTags), summary |-> parsed.summary,
   tasks |-> parsed.tasks]

\* processNoteWithAI: never rejects
ProcessNoteWithAI(content, outcome) ==
  IF outcome.kind \in CallFailures THEN FallbackResults(content)
  ELSE Validated(outcome.parsed)

\* the lines the notes of the fallback runs are made of
\* "**call bob**"
BoldLine ==
  <<"*", "*", "c", "a", "l", "l", " ", "b", "o", "b", "*", "*">>
\* "- [ ] buy milk"
BoxLine ==
  <<"-", " ", "[", " ", "]", " ", "b", "u", "y", " ", "m", "i", "l", "k">>
\* "TODO: pay rent"
TodoLine ==
  <<"T", "O", "D", "O", ":", " ", "p", "a", "y", " ", "r", "e", "n", "t">>
\* "task fix door"
TaskLine ==
  <<"t", "a", "s", "k", " ", "f", "i", "x", " ", "d", "o", "o", "r">>
\* "**pay rent**"
BoldAgainLine ==
  <<"*", "*", "p", "a", "y", " ", "r", "e", "n", "t", "*", "*">>
\* "**send mail**"
MailLine ==
  <<"*", "*", "s", "e", "n", "d", " ", "m", "a", "i", "l", "*", "*">>
\* "- [ ] TODO: **walk dog**"
MixedLine ==
  <<"-", " ", "[", " ", "]", " ", "T", "O", "D", "O", ":", " ", "*", "*",
    "w", "a", "l", "k", " ", "d", "o", "g", "*", "*">>
\* "**ok**"
ShortLine ==
  <<"*", "*", "o", "k", "*", "*">>
\* "door needs door paint"
PlainLine ==
  <<"d", "o", "o", "r", " ", "n", "e", "e", "d", "s", " ", "d", "o", "o",
    "r", " ", "p", "a", "i", "n", "t">>
Lines == <<BoldLine, BoxLine, TodoLine, TaskLine, BoldAgainLine, MailLine, MixedLine, ShortLine, PlainLine>>

RECURSIVE JoinLines(_)
\* the chosen lines, each ended by a line feed
JoinLines(ls) ==
  IF ls = <<>> THEN <<>> ELSE Head(ls) \o <<"\n">> \o JoinLines(Tail(ls))

\* the contents made of one line, of all lines, and of all lines but one
FallbackPicks ==
  {1..Len(Lines)}
    \cup {{i} : i \in 1..Len(Lines)}
    \cup {(1..Len(Lines)) \ {i} : i \in 1..Len(Lines)}

FallbackContents ==
  {JoinLines(SelectSeq([i \in 1..Len(Lines) |-> IF i \in pick THEN Lines[i] ELSE <<>>],
                       LAMBDA l : l # <<>>)) : pick \in FallbackPicks}

\* ------------------------------------------------------------------ state
VARIABLES
  remoteNotes,    \* the rows of the notes table
  remoteTasks,    \* the rows of the tasks table
  nextId,         \* the id and created_at the next inserted note gets
  nextTaskId,     \* the id the next inserted task gets
  notes,          \* useState<Note[]>: the local collection
  filteredNotes,  \* useState<Note[]>: the collection TileGrid renders
  tasks,          \* useState<Task[]>
  loading,        \* TRUE until the first loadNotes has settled
  isCreating,     \* FloatingAddButton: a createNote call is awaited
  inflight,       \* responses of the synchronizer's remote calls, not yet handled
  bgTimers,       \* notes whose 2 s setTimeout of createNote is pending
  runs,           \* enrichment runs between two of their awaits
  editingNote,    \* <<>> or <<note>>: the note the edit modal shows
  apStatus,       \* AIProcessor: 'idle' | 'processing' | 'complete' | 'error'
  apProcessing,   \* AIProcessor: the processing flag
  apTimer,        \* AIProcessor: <<>>, or <<note>> while its 3 s timer is pending
  apVariant,      \* which AIProcessor.processNote is built in
  draggedItem,    \* TileGrid: useState<string | null>, the id being dragged
  selectedTags,   \* useState<string[]>: the tags chosen in the tag sidebar
  session,        \* the auth client's session: <<>> or <<user id>>
  authUser,       \* AuthGuard: useState<User | null>, <<>> or <<user id>>
  authLoading,    \* AuthGuard: useState(true)
  route,          \* the page the router shows: "/" or "/auth"
  nav,            \* router.push: <<>>, or <<path>> while the page change is pending
  authEvents,     \* auth state changes not yet delivered to the subscriber
  checks,         \* the checkAuth calls that await getSession(), by component
  thrown,         \* the synchronizer call that last rejected to its caller
  deletedAck,     \* ids whose deleteNote has resolved
  windowCalls,    \* per note id, the completion calls that timers have made in
                  \* the settle window now open (or last open) for the note
  ops,            \* user interactions so far
  reloads,        \* session events so far
  fails           \* remote calls that have failed so far

vars ==
  <<remoteNotes, remoteTasks, nextId, nextTaskId, notes, filteredNotes, tasks,
    loading, isCreating, inflight, bgTimers, runs, editingNote, apStatus,
    apProcessing, apTimer, apVariant, draggedItem, selectedTags, session, authUser,
    authLoading, route, nav, authEvents, checks, thrown, deletedAck, windowCalls, ops,
    reloads, fails>>

remoteVars == <<remoteNotes, remoteTasks, nextId, nextTaskId>>
apVars == <<editingNote, apStatus, apProcessing, apTimer>>
enrichVars == <<bgTimers, runs, windowCalls>>
\* what the synchronizer's handlers never assign
authVars == <<session, authUser, authLoading, route, nav, authEvents, checks>>
shellVars == <<apVariant, draggedItem, selectedTags, authVars>>

\* --------------------------------------------------------- the remote store
RowsWithId(id) == {r \in remoteNotes : r.id = id}

\* another account of the same project, whose rows share the two tables
OtherUserId == "u2"

\* CREATE POLICY "Users can manage own notes" ON notes FOR ALL
\*   USING (auth.uid() = user_id), and the same policy on tasks: the rows a
\* statement of this session can see, change or add
Policy(r) == r.user_id = UserId

\* the columns that the statement behind each call compares with .eq()
Filters(k) ==
  CASE k = "load" -> {"user_id", "is_archived"}
    [] k = "loadTasks" -> {"user_id"}
    [] k \in {"update", "delete", "updateTask", "deleteTask"} -> {"id"}
    [] OTHER -> {}

\* a store without row level security, and a client that sends no owner
MatchesIdOnly(r, k, id) == "id" \in Filters(k) => r.id = id

\* the rows a statement of call k reaches: the policy and its own filters
\* (no row is archived: nothing in the client sets is_archived)
Matches(r, k, id) ==
  /\ Policy(r)
  /\ "user_id" \in Filters(k) => r.user_id = UserId
  /\ "id" \in Filters(k) => r.id = id

RECURSIVE SeqOfRows(_)
\* .order('pinned', desc).order('created_at', desc)
SeqOfRows(rows) ==
  IF rows = {} THEN <<>>
  ELSE LET first == CHOOSE r \in rows : \A o \in rows : UpdateCmp(r, o) <= 0
       IN <<first>> \o SeqOfRows(rows \ {first})

\* select('*').eq('user_id', user.id).eq('is_archived', false) on notes
SelectNotes == SeqOfRows({r \in remoteNotes : Matches(r, "load", 0)})

RECURSIVE SeqOfTasks(_)
\* tasks ordered by created_at descending
SeqOfTasks(rows) ==
  IF rows = {} THEN <<>>
  ELSE LET first == CHOOSE r \in rows : \A o \in rows : r.id >= o.id
       IN <<first>> \o SeqOfTasks(rows \ {first})

\* select('*').eq('user_id', user.id) on tasks
SelectTasks == SeqOfTasks({t \in remoteTasks : Matches(t, "loadTasks", 0)})

\* update(u).eq('id', id): the rows after the statement
RowsAfterUpdate(id, u) ==
  {IF Matches(r, "update", id) THEN Merge(r, u) ELSE r : r \in remoteNotes}

\* delete().eq('id', id) on notes
RowsAfterDelete(id) == {r \in remoteNotes : ~Matches(r, "delete", id)}

\* tasks.note_id REFERENCES notes(id) ON DELETE CASCADE
TasksAfterDelete(id) == {t \in remoteTasks : t.note_id # id}

\* priority TEXT CHECK (priority IN ('low', 'medium', 'high'))
PriorityOk(p) == p \in {"low", "medium", "high"}

\* a response waiting for its handler
Resp(k, id, st, data, ts) == [k |-> k, id |-> id, st |-> st, data |-> data, tasks |-> ts]

UserCalls == {r \in inflight : r.k \in {"create", "update", "delete"}}

\* the user can act on the tile grid: the app is loaded and no modal covers it
GridOpen == ~loading /\ editingNote = <<>> /\ draggedItem = <<>>
CanCall == ops < MaxOps /\ Cardinality(UserCalls) < MaxInflight

\* the [filters, notes, tasks] effect of SearchAndFilter, run after a render
\* that changed notes or tasks: onNotesFiltered(applyFilters())
Effect(newNotes) == filteredNotes' \in ApplyFilters(newNotes)

\* the outcome of one remote call: it answers, or it is one of the failures
Ok == fails' = fails
Fail == fails < MaxFailures /\ fails' = fails + 1
Answers(st) == IF st = "ok" THEN Ok ELSE Fail

\* what an earlier session left in the notes table: a pinned note with a bold
\* span, not enriched yet
InitialRows == {NewNote(1, "t1", TaskContent, TRUE)}
StoredNotes == Cardinality(InitialRows)

\* the ids the notes table can ever hold
NoteIds == 1..(StoredNotes + MaxCreates)

\* AuthGuard shows its children: the session check has found the user
SignedIn ==
  /\ session = <<UserId>> /\ authUser = <<UserId>> /\ authLoading = FALSE
  /\ route = "/" /\ nav = <<>> /\ authEvents = <<>> /\ checks = {}

\* the component has mounted: loading is TRUE and the [user] effect has sent
\* loadNotes() and loadTasks()
Init ==
  /\ remoteNotes = InitialRows /\ remoteTasks = {}
  /\ nextId = StoredNotes + 1 /\ nextTaskId = 1
  /\ notes = <<>> /\ filteredNotes = <<>> /\ tasks = <<>>
  /\ loading = TRUE /\ isCreating = FALSE
  /\ inflight = {Resp("load", 0, "ok", SeqOfRows(InitialRows), <<>>),
                 Resp("loadTasks", 0, "ok", <<>>, <<>>)}
  /\ bgTimers = {} /\ runs = {}
  /\ editingNote = <<>> /\ apStatus = "idle" /\ apProcessing = FALSE /\ apTimer = <<>>
  /\ apVariant \in {"simulated", "openai"} /\ draggedItem = <<>> /\ SignedIn
  /\ thrown = "none" /\ deletedAck = {} /\ windowCalls = [n \in NoteIds |-> 0]
  /\ ops = 0 /\ reloads = 0 /\ fails = 0 /\ selectedTags = <<>>

\* ------------------------------------------------------ the synchronizer
EditContents == {PlainContent}
Range(s) == {s[i] : i \in 1..Len(s)}

\* loadNotes(); loadTasks(): the [user] effect, re-run by a session event
LoadEffect ==
  /\ reloads < MaxReloads /\ ops < MaxOps
  /\ reloads' = reloads + 1
  /\ ops' = ops + 1
  /\ \E stn \in {"ok", "error"}, stt \in {"ok", "error"} :
       /\ fails' = fails + (IF stn = "ok" THEN 0 ELSE 1) + (IF stt = "ok" THEN 0 ELSE 1)
       /\ fails' <= MaxFailures
       /\ inflight' = inflight \cup
            { Resp("load", reloads + 1, stn, IF stn = "ok" THEN SelectNotes ELSE <<>>, <<>>),
              Resp("loadTasks", reloads + 1, stt, <<>>,
                   IF stt = "ok" THEN SelectTasks ELSE <<>>) }
  /\ UNCHANGED <<remoteVars, notes, filteredNotes, tasks, loading, isCreating,
                 enrichVars, apVars, shellVars, thrown, deletedAck>>

\* loadNotes after its await
LoadResp(r) ==
  /\ r \in inflight /\ r.k = "load"
  /\ inflight' = inflight \ {r}
  /\ loading' = FALSE
  /\ notes' = IF r.st = "ok" THEN r.data ELSE notes
  /\ IF r.st = "ok" \/ loading THEN Effect(notes') ELSE UNCHANGED filteredNotes
  /\ UNCHANGED <<remoteVars, tasks, isCreating, enrichVars, apVars, shellVars,
                 thrown, deletedAck, ops, reloads,
                 fails>>

\* loadTasks after its await
LoadTasksResp(r) ==
  /\ r \in inflight /\ r.k = "loadTasks"
  /\ inflight' = inflight \ {r}
  /\ tasks' = IF r.st = "ok" THEN r.tasks ELSE tasks
  /\ IF r.st = "ok" /\ ~loading THEN Effect(notes) ELSE UNCHANGED filteredNotes
  /\ UNCHANGED <<remoteVars, notes, loading, isCreating, enrichVars, apVars,
                 shellVars, thrown, deletedAck, ops, reloads,
                 fails>>

\* a catch that logs and does not rethrow
Swallowed == "none"

\* catch (error) { ...; throw error }: what the caller of each call sees
CreateCatch == "createNote"
UpdateCatch == "updateNote"
DeleteCatch == "deleteNote"

\* createNote up to its await: newNote is built and the insert is sent
InsertNote(newNote) ==
  /\ GridOpen /\ CanCall /\ ~isCreating /\ nextId <= StoredNotes + MaxCreates
  /\ ops' = ops + 1
  /\ isCreating' = TRUE
  /\ \/ /\ remoteNotes' = remoteNotes \cup {newNote}
        /\ nextId' = nextId + 1
        /\ inflight' = inflight \cup
             {Resp("create", nextId, "ok", <<newNote>>, <<>>)}
        /\ Ok
     \/ /\ \E st \in {"error", "nodata"} :
             inflight' = inflight \cup {Resp("create", 0, st, <<>>, <<>>)}
        /\ Fail
        /\ UNCHANGED <<remoteNotes, nextId>>
  /\ UNCHANGED <<remoteTasks, nextTaskId, notes, filteredNotes, tasks, loading,
                 enrichVars, apVars, shellVars, thrown, deletedAck, reloads>>

\* createNote called with a title, a content and a pinned flag and no more
CreateNote(t, c, p) == InsertNote(NewNote(nextId, t, c, p))

\* "Insert at the beginning, but after pinned notes"
InsertCreated(prev, data) ==
  IF data.pinned THEN <<data>> \o PinnedOf(prev) \o UnpinnedOf(prev)
  ELSE PinnedOf(prev) \o <<data>> \o UnpinnedOf(prev)

\* if (error) throw ...; if (!data) throw ...
CreateRejected(r) == r.st # "ok"

TimerWanted(data) == LongEnough(data.content)

\* createNote after its await
CreateResp(r) ==
  /\ r \in inflight /\ r.k = "create"
  /\ inflight' = inflight \ {r}
  /\ isCreating' = FALSE
  /\ IF CreateRejected(r)
     THEN /\ thrown' = CreateCatch
          /\ UNCHANGED <<notes, filteredNotes, bgTimers>>
     ELSE /\ notes' = InsertCreated(notes, r.data[1])
          /\ Effect(notes')
          /\ bgTimers' = IF TimerWanted(r.data[1]) THEN bgTimers \cup {r.data[1]}
                         ELSE bgTimers
          /\ thrown' = thrown
  /\ UNCHANGED <<remoteVars, tasks, loading, runs, windowCalls, apVars, shellVars,
                 deletedAck, ops, reloads,
                 fails>>

\* a setNotes placed before the await
AppliedOptimistically(prev, id, u) == MergeId(prev, id, u)

\* the local collection while updateNote awaits the store: no setNotes yet
WhileInFlight(prev, id, u) == prev

\* updateNote up to its await: update(updates).eq('id', id).select().single()
UpdateNote(id, u) ==
  /\ CanCall
  /\ notes' = WhileInFlight(notes, id, u)
  /\ IF notes' = notes THEN UNCHANGED filteredNotes ELSE Effect(notes')
  /\ ops' = ops + 1
  /\ \/ /\ RowsWithId(id) # {}
        /\ remoteNotes' = RowsAfterUpdate(id, u)
        /\ inflight' = inflight \cup
             {Resp("update", id, "ok",
                   <<Merge(CHOOSE r \in remoteNotes : r.id = id, u)>>, <<>>)}
        /\ Ok
     \/ /\ inflight' = inflight \cup {Resp("update", id, "error", <<>>, <<>>)}
        /\ Fail
        /\ UNCHANGED remoteNotes
  /\ UNCHANGED <<remoteTasks, nextId, nextTaskId, tasks, loading, isCreating,
                 bgTimers, windowCalls, shellVars, thrown, deletedAck, reloads>>

\* the local collection once the update is acknowledged: replace, then re-sort
AfterUpdate(prev, id, data) == SortNotes(ReplaceId(prev, id, data))

\* updateNote after its await
UpdateResp(r) ==
  /\ r \in inflight /\ r.k = "update"
  /\ inflight' = inflight \ {r}
  /\ IF r.st = "ok"
     THEN /\ notes' = AfterUpdate(notes, r.id, r.data[1])
          /\ Effect(notes')
          /\ thrown' = thrown
     ELSE /\ thrown' = UpdateCatch
          /\ UNCHANGED <<notes, filteredNotes>>
  /\ UNCHANGED <<remoteVars, tasks, loading, isCreating, enrichVars, apVars,
                 shellVars, deletedAck, ops, reloads,
                 fails>>

\* deleteNote up to its await: delete().eq('id', id)
DeleteNote(id) ==
  /\ CanCall
  /\ ops' = ops + 1
  /\ \/ /\ remoteNotes' = RowsAfterDelete(id)
        /\ remoteTasks' = TasksAfterDelete(id)
        /\ inflight' = inflight \cup {Resp("delete", id, "ok", <<>>, <<>>)}
        /\ Ok
     \/ /\ inflight' = inflight \cup {Resp("delete", id, "error", <<>>, <<>>)}
        /\ Fail
        /\ UNCHANGED <<remoteNotes, remoteTasks>>
  /\ UNCHANGED <<nextId, nextTaskId, notes, filteredNotes, tasks, loading,
                 isCreating, bgTimers, windowCalls, shellVars, thrown, deletedAck, reloads>>

\* deleteNote after its await
DeleteResp(r) ==
  /\ r \in inflight /\ r.k = "delete"
  /\ inflight' = inflight \ {r}
  /\ IF r.st = "ok"
     THEN /\ notes' = WithoutId(notes, r.id)
          /\ Effect(notes')
          /\ deletedAck' = deletedAck \cup {r.id}
          /\ thrown' = thrown
     ELSE /\ thrown' = DeleteCatch
          /\ UNCHANGED <<notes, filteredNotes, deletedAck>>
  /\ UNCHANGED <<remoteVars, tasks, loading, isCreating, enrichVars, apVars,
                 shellVars, ops, reloads,
                 fails>>

\* NoteTile.handleSave: onUpdate({ title, content })
TileSave(n, t, c) ==
  /\ GridOpen /\ n \in Range(filteredNotes)
  /\ UpdateNote(n.id, [title |-> t, content |-> c])
  /\ UNCHANGED <<apVars, runs>>

\* NoteTile.handlePinToggle: onUpdate({ pinned: !note.pinned })
PinToggle(n) ==
  /\ GridOpen /\ n \in Range(filteredNotes)
  /\ UpdateNote(n.id, [pinned |-> ~n.pinned])
  /\ UNCHANGED <<apVars, runs>>

\* one of the eight colorOptions of NoteTile, other than the default
Colors == {"#FFE4B5"}

\* NoteTile.handleColorChange: onUpdate({ color })
ColorChange(n, color) ==
  /\ GridOpen /\ n \in Range(filteredNotes)
  /\ UpdateNote(n.id, [color |-> color])
  /\ UNCHANGED <<apVars, runs>>

\* ------------------------------------------------------------ drag and drop
\* TileGrid renders one DragDropContext per section over its notes prop
Section(ns, wantPinned) == SelectSeq2(ns, wantPinned)

\* the index of the note with this id in s, 0 if there is none
IndexOfId(s, id) ==
  IF \E i \in 1..Len(s) : s[i].id = id
  THEN CHOOSE i \in 1..Len(s) : s[i].id = id ELSE 0

\* position_x || 0: a falsy number is 0 already, any other number is kept
OrZero(v) == IF v = 0 THEN 0 ELSE v

\* handleDragEnd: draggedNote = notes[sourceIndex], targetNote =
\* notes[destinationIndex], with the indices the section's context reports
DragPair(ns, wantPinned, src, dst) == <<ns[src], ns[dst]>>

\* the two onUpdateNote calls of handleDragEnd, in the order they are made
DragUpdates(pair) ==
  <<[id |-> pair[1].id,
     u |-> [position_x |-> OrZero(pair[2].position_x),
            position_y |-> OrZero(pair[2].position_y)]],
    [id |-> pair[2].id,
     u |-> [position_x |-> OrZero(pair[1].position_x),
            position_y |-> OrZero(pair[1].position_y)]]>>

\* a swap whose two updates are one transaction
LandsTogether(st, other) == st = "ok" /\ other = "ok"

\* each onUpdateNote call is a statement of its own, not awaited by the
\* handler: it changes its row whenever the store accepts it, whatever
\* becomes of the other
Lands(st, other) == st = "ok"

\* update(u).eq('id', id) applied to rows
UpdatedRows(rows, id, u) ==
  {IF Matches(r, "update", id) THEN Merge(r, u) ELSE r : r \in rows}

\* handleDragStart: setDraggedItem(result.draggableId); source is what the
\* drag library keeps of the lift: the section and the index in it
HandleDragStart(n) ==
  /\ GridOpen /\ ops < MaxOps /\ n \in Range(filteredNotes)
  /\ ops' = ops + 1
  /\ draggedItem' = <<[id |-> n.id, pinned |-> n.pinned,
                       index |-> IndexOfId(Section(filteredNotes, n.pinned), n.id)]>>
  /\ UNCHANGED <<remoteVars, notes, filteredNotes, tasks, loading, isCreating,
                 inflight, enrichVars, apVars, apVariant, selectedTags, authVars,
                 thrown, deletedAck,
                 reloads, fails>>

\* handleDragEnd: dst is result.destination.index + 1, or 0 when the tile is
\* dropped outside the section
HandleDragEnd(dst) ==
  /\ draggedItem # <<>>
  /\ dst <= Len(Section(filteredNotes, draggedItem[1].pinned))
  /\ draggedItem' = <<>>
  /\ LET src == draggedItem[1].index
         pair == DragPair(filteredNotes, draggedItem[1].pinned, src, dst)
         ups == DragUpdates(pair)
     IN IF dst = 0 \/ dst = src \/ src > Len(filteredNotes) \/ dst > Len(filteredNotes)
        THEN UNCHANGED <<remoteNotes, inflight, fails>>
        ELSE /\ Cardinality(UserCalls) + 2 <= MaxInflight
             /\ \E st1, st2 \in {"ok", "error"} :
                  LET rows1 == IF Lands(st1, st2)
                               THEN UpdatedRows(remoteNotes, ups[1].id, ups[1].u)
                               ELSE remoteNotes
                      rows2 == IF Lands(st2, st1)
                               THEN UpdatedRows(rows1, ups[2].id, ups[2].u)
                               ELSE rows1
                      Data(rows, i, st) ==
                        IF st = "ok"
                        THEN <<CHOOSE r \in rows : r.id = ups[i].id>> ELSE <<>>
                  IN /\ st1 = "ok" => RowsWithId(ups[1].id) # {}
                     /\ st2 = "ok" => RowsWithId(ups[2].id) # {}
                     /\ fails' = fails + (IF st1 = "error" THEN 1 ELSE 0)
                                       + (IF st2 = "error" THEN 1 ELSE 0)
                     /\ fails' <= MaxFailures
                     /\ remoteNotes' = rows2
                     /\ inflight' = inflight \cup
                          {Resp("update", ups[1].id, st1, Data(rows1, 1, st1), <<>>),
                           Resp("update", ups[2].id, st2, Data(rows2, 2, st2), <<>>)}
  /\ UNCHANGED <<remoteTasks, nextId, nextTaskId, notes, filteredNotes, tasks,
                 loading, isCreating, enrichVars, apVars, apVariant, selectedTags, authVars,
                 thrown,
                 deletedAck, ops, reloads>>

\* NoteTile's delete button: onDelete()
TileDelete(n) ==
  /\ GridOpen /\ n \in Range(filteredNotes)
  /\ DeleteNote(n.id)
  /\ UNCHANGED <<apVars, runs>>

\* ------------------------------------------------------- the edit modal
\* the auto-process effect's condition
AutoWanted(n) == ~n.ai_processed_at /\ Len(Trim(n.content)) > MinContentLen

Orphaned(rs) == {IF r.path = "ap" THEN [r EXCEPT !.live = FALSE] ELSE r : r \in rs}

\* a settle window is open for the note: one of its timers has not fired yet
TimerPending(id) ==
  \/ \E m \in bgTimers : m.id = id
  \/ apTimer # <<>> /\ apTimer[1].id = id

\* handleNoteEdit: setEditingNote(note); AIProcessor mounts and runs its effect
HandleNoteEdit(n) ==
  /\ GridOpen /\ ops < MaxOps /\ n \in Range(filteredNotes)
  /\ ops' = ops + 1
  /\ editingNote' = <<n>>
  /\ apStatus' = "idle" /\ apProcessing' = FALSE
  /\ apTimer' = IF AutoWanted(n) THEN <<n>> ELSE <<>>
  /\ windowCalls' = IF AutoWanted(n) /\ ~TimerPending(n.id)
                    THEN [windowCalls EXCEPT ![n.id] = 0] ELSE windowCalls
  /\ UNCHANGED <<remoteVars, notes, filteredNotes, tasks, loading, isCreating,
                 inflight, bgTimers, runs, shellVars, thrown, deletedAck, reloads,
                 fails>>

\* onClose: setEditingNote(null); AIProcessor unmounts, its effect's cleanup
\* clears the timer
CloseModal ==
  /\ editingNote' = <<>>
  /\ apStatus' = "idle" /\ apProcessing' = FALSE /\ apTimer' = <<>>
  /\ runs' = Orphaned(runs)

ModalClose ==
  /\ editingNote # <<>> /\ ops < MaxOps
  /\ ops' = ops + 1
  /\ CloseModal
  /\ UNCHANGED <<remoteVars, notes, filteredNotes, tasks, loading, isCreating,
                 inflight, bgTimers, windowCalls, shellVars, thrown, deletedAck, reloads,
                 fails>>

\* a modal that sends the whole note it was opened on
WholeNote(n, t, p) == Merge(n, [title |-> t, pinned |-> p])

\* NoteEditModal's editedNote: the four fields its effect copies from the note,
\* with the title and the pin as the user left them
EditedNote(n, t, p) ==
  [title |-> t, content |-> n.content, tags |-> n.tags, pinned |-> p]

\* NoteEditModal.handleSave: onSave(note.id, editedNote); onClose()
ModalSave(t, p) ==
  /\ editingNote # <<>>
  /\ UpdateNote(editingNote[1].id, EditedNote(editingNote[1], t, p))
  /\ CloseModal

\* NoteEditModal.handleDelete: onDelete(note.id); onClose()
ModalDelete ==
  /\ editingNote # <<>>
  /\ DeleteNote(editingNote[1].id)
  /\ CloseModal

\* --------------------------------------------------- enrichment: background
NoRes == [tags |-> <<>>, summary |-> Undefined, tasks |-> <<>>]

\* an enrichment run suspended at an await; note is the snapshot it works on
Run(path, auto, live, stage, note, res, st) ==
  [path |-> path, auto |-> auto, live |-> live, stage |-> stage, note |-> note,
   res |-> res, st |-> st]

\* processNoteInBackground: ai_tags: tags || [], ai_summary: summary || null
BgUpdates(res) ==
  [ai_tags |-> res.tags,
   ai_summary |-> IF res.summary = Undefined THEN NoSummary ELSE res.summary,
   ai_processed_at |-> TRUE]

\* AIProcessor.processNote: ai_tags: tags, ai_summary: summary
ApUpdates(res) ==
  [ai_tags |-> res.tags, ai_summary |-> res.summary, ai_processed_at |-> TRUE]

\* a catch block that sends the rejected update again
RepeatedUpdates(res) == BgUpdates(res)

\* the catch block of processNoteInBackground:
\* update({ ai_processed_at: new Date().toISOString() })
CatchUpdates(res) == [ai_processed_at |-> TRUE]

BgPriority == "medium"
\* priority: 1
ApPriority == "1"

\* the rows tasks.map(...) builds, with the ids the store gives them
TaskRows(phrases, noteId, priority) ==
  {[id |-> nextTaskId + i - 1, user_id |-> UserId, note_id |-> noteId,
    title |-> phrases[i], is_completed |-> FALSE, priority |-> priority]
     : i \in 1..Len(phrases)}

\* insert(taskInserts): one statement; the foreign key on note_id and the
\* check on priority hold for every row or nothing is inserted
InsertAccepted(rows) ==
  \A t \in rows : RowsWithId(t.note_id) # {} /\ PriorityOk(t.priority)

\* the insert reaches the store: st is what the client is told
InsertTasks(rows, st) ==
  \/ /\ InsertAccepted(rows) /\ st = "ok" /\ Ok
     /\ remoteTasks' = remoteTasks \cup rows
     /\ nextTaskId' = nextTaskId + Cardinality(rows)
  \/ /\ ~InsertAccepted(rows) /\ st = "error" /\ Ok
     /\ UNCHANGED <<remoteTasks, nextTaskId>>
  \/ /\ InsertAccepted(rows) /\ st = "error" /\ Fail
     /\ UNCHANGED <<remoteTasks, nextTaskId>>

\* the 2 s timer of createNote fires: processNoteInBackground(data) runs up
\* to its first await, the call of processNoteWithAI
BgTimerFire(n) ==
  /\ n \in bgTimers
  /\ bgTimers' = bgTimers \ {n}
  /\ runs' = runs \cup {Run("bg", TRUE, TRUE, "ai", n, NoRes, "ok")}
  /\ windowCalls' = [windowCalls EXCEPT ![n.id] = @ + 1]
  /\ UNCHANGED <<remoteVars, notes, filteredNotes, tasks, loading, isCreating,
                 inflight, apVars, shellVars, thrown, deletedAck, ops, reloads,
                 fails>>

\* processNoteWithAI has returned: the update of the AI fields is sent
BgAIReturn(run, res) ==
  /\ run \in runs /\ run.path = "bg" /\ run.stage = "ai"
  /\ \E st \in {"ok", "error"} :
       /\ Answers(st)
       /\ remoteNotes' = IF st = "ok"
                         THEN RowsAfterUpdate(run.note.id, BgUpdates(res))
                         ELSE remoteNotes
       /\ runs' = (runs \ {run}) \cup
                    {[run EXCEPT !.stage = "upd", !.res = res, !.st = st]}
  /\ UNCHANGED <<remoteTasks, nextId, nextTaskId, notes, filteredNotes, tasks,
                 loading, isCreating, inflight, bgTimers, windowCalls, apVars,
                 shellVars, thrown, deletedAck, ops, reloads>>

\* the update has answered
BgUpdateResp(run) ==
  /\ run \in runs /\ run.path = "bg" /\ run.stage = "upd"
  /\ IF run.st = "error"
     THEN \* catch: "Still mark as processed to avoid infinite retries"
          /\ \E st \in {"ok", "error"} :
               /\ Answers(st)
               /\ remoteNotes' = IF st = "ok"
                                 THEN RowsAfterUpdate(run.note.id,
                                                      CatchUpdates(run.res))
                                 ELSE remoteNotes
               /\ runs' = (runs \ {run}) \cup
                            {[run EXCEPT !.stage = "mark", !.st = st]}
          /\ UNCHANGED <<remoteTasks, nextTaskId, notes, filteredNotes>>
     ELSE /\ notes' = MergeId(notes, run.note.id, BgUpdates(run.res))
          /\ Effect(notes')
          /\ UNCHANGED remoteNotes
          /\ IF run.res.tasks # <<>>
             THEN \E st \in {"ok", "error"} :
                    /\ InsertTasks(TaskRows(run.res.tasks, run.note.id, BgPriority), st)
                    /\ runs' = (runs \ {run}) \cup
                                 {[run EXCEPT !.stage = "tasks", !.st = st]}
             ELSE /\ runs' = runs \ {run}
                  /\ Ok
                  /\ UNCHANGED <<remoteTasks, nextTaskId>>
  /\ UNCHANGED <<nextId, tasks, loading, isCreating, inflight, bgTimers, windowCalls,
                 apVars, shellVars, thrown, deletedAck, ops, reloads>>

\* the catch block's update has answered: the run ends
BgMarkResp(run) ==
  /\ run \in runs /\ run.path = "bg" /\ run.stage = "mark"
  /\ runs' = runs \ {run}
  /\ UNCHANGED <<remoteVars, notes, filteredNotes, tasks, loading, isCreating,
                 inflight, bgTimers, windowCalls, apVars, shellVars, thrown,
                 deletedAck, ops, reloads,
                 fails>>

\* the insert of the tasks has answered: loadTasks() unless it failed
BgTasksResp(run) ==
  /\ run \in runs /\ run.path = "bg" /\ run.stage = "tasks"
  /\ runs' = runs \ {run}
  /\ IF run.st = "ok"
     THEN \E st \in {"ok", "error"} :
            /\ Answers(st)
            /\ inflight' = inflight \cup
                 {Resp("loadTasks", 0, st, <<>>, IF st = "ok" THEN SelectTasks ELSE <<>>)}
     ELSE Ok /\ UNCHANGED inflight
  /\ UNCHANGED <<remoteVars, notes, filteredNotes, tasks, loading, isCreating,
                 bgTimers, windowCalls, apVars, shellVars, thrown, deletedAck, ops,
                 reloads>>

\* --------------------------------------------------- enrichment: AIProcessor
\* a button that ignores ai_processed_at
ProcessNowShownAlways == editingNote # <<>> /\ apStatus # "processing"

\* {!note.ai_processed_at && status !== 'processing' && (<button ...>)}
ProcessNowShown ==
  /\ editingNote # <<>>
  /\ ~editingNote[1].ai_processed_at
  /\ apStatus # "processing"

\* processNote past its guard, up to its first await (the simulated delay,
\* or the call of processNoteWithAI)
StartApRun(n, auto) ==
  /\ apProcessing' = TRUE
  /\ apStatus' = "processing"
  /\ runs' = runs \cup {Run("ap", auto, TRUE, "ai", n, NoRes, "ok")}
  /\ windowCalls' = IF apVariant = "openai" /\ auto
                    THEN [windowCalls EXCEPT ![n.id] = @ + 1] ELSE windowCalls

\* onClick={processNote} disabled={processing}
ProcessNow ==
  /\ ProcessNowShown /\ ~apProcessing /\ ops < MaxOps
  /\ ops' = ops + 1
  /\ StartApRun(editingNote[1], FALSE)
  /\ UNCHANGED <<remoteVars, notes, filteredNotes, tasks, loading, isCreating,
                 inflight, bgTimers, editingNote, apTimer, shellVars, thrown,
                 deletedAck, reloads,
                 fails>>

\* the 3 s timer fires: processNote of the render that set the timer, whose
\* processing is FALSE and whose note is the one the modal was opened on
ApTimerFire ==
  /\ apTimer # <<>>
  /\ apTimer' = <<>>
  /\ StartApRun(apTimer[1], TRUE)
  /\ UNCHANGED <<remoteVars, notes, filteredNotes, tasks, loading, isCreating,
                 inflight, bgTimers, editingNote, shellVars, thrown, deletedAck,
                 ops, reloads,
                 fails>>

\* the results are there: the update of the AI fields is sent
ApAIReturn(run, res) ==
  /\ run \in runs /\ run.path = "ap" /\ run.stage = "ai"
  /\ IF apVariant = "simulated" THEN res = SimulatedResults(run.note.content)
     ELSE res \in ServiceResults
  /\ \E st \in {"ok", "error"} :
       /\ Answers(st)
       /\ remoteNotes' = IF st = "ok"
                         THEN RowsAfterUpdate(run.note.id, Wire(ApUpdates(res)))
                         ELSE remoteNotes
       /\ runs' = (runs \ {run}) \cup
                    {[run EXCEPT !.stage = "upd", !.res = res, !.st = st]}
  /\ UNCHANGED <<remoteTasks, nextId, nextTaskId, notes, filteredNotes, tasks,
                 loading, isCreating, inflight, bgTimers, windowCalls, apVars,
                 shellVars, thrown, deletedAck, ops, reloads>>

\* setStatus('complete'); onProcessingComplete({ ...note, ...updates });
\* finally setProcessing(false)
ApComplete(run) ==
  LET updatedNote == Merge(run.note, ApUpdates(run.res))
      sameNote == editingNote # <<>> /\ editingNote[1].id = updatedNote.id
  IN /\ notes' = ReplaceId(notes, updatedNote.id, updatedNote)
     /\ Effect(notes')
     /\ editingNote' = <<updatedNote>>
     /\ apStatus' = IF editingNote = <<>> THEN "idle"
                    ELSE IF run.live THEN "complete" ELSE apStatus
     /\ apProcessing' = IF editingNote = <<>> \/ run.live THEN FALSE ELSE apProcessing
     /\ apTimer' = IF sameNote THEN apTimer ELSE <<>>

\* the update has answered
ApUpdateResp(run) ==
  /\ run \in runs /\ run.path = "ap" /\ run.stage = "upd"
  /\ IF run.st = "error"
     THEN \* catch: setStatus('error'); finally setProcessing(false)
          /\ runs' = runs \ {run}
          /\ Ok
          /\ apStatus' = IF run.live THEN "error" ELSE apStatus
          /\ apProcessing' = IF run.live THEN FALSE ELSE apProcessing
          /\ UNCHANGED <<remoteTasks, nextTaskId, notes, filteredNotes,
                         editingNote, apTimer>>
     ELSE IF run.res.tasks # <<>>
     THEN /\ \E st \in {"ok", "error"} :
               /\ InsertTasks(TaskRows(run.res.tasks, run.note.id, ApPriority), st)
               /\ runs' = (runs \ {run}) \cup
                            {[run EXCEPT !.stage = "tasks", !.st = st]}
          /\ UNCHANGED <<notes, filteredNotes, apVars>>
     ELSE /\ runs' = runs \ {run}
          /\ Ok
          /\ ApComplete(run)
          /\ UNCHANGED <<remoteTasks, nextTaskId>>
  /\ UNCHANGED <<remoteNotes, nextId, tasks, loading, isCreating, inflight,
                 bgTimers, windowCalls, shellVars, thrown, deletedAck, ops, reloads>>

\* await supabase.from('tasks').insert(taskInserts) has answered; its result
\* is not looked at
ApTasksResp(run) ==
  /\ run \in runs /\ run.path = "ap" /\ run.stage = "tasks"
  /\ runs' = runs \ {run}
  /\ ApComplete(run)
  /\ UNCHANGED <<remoteVars, tasks, loading, isCreating, inflight, bgTimers,
                 windowCalls, shellVars, thrown, deletedAck, ops, reloads,
                 fails>>

\* -------------------------------------------------------------------- Next
Next ==
  \/ LoadEffect
  \/ \E r \in inflight : LoadResp(r)
  \/ \E r \in inflight : LoadTasksResp(r)
  \/ \E t \in Titles, c \in CreateContents, p \in BOOLEAN : CreateNote(t, c, p)
  \/ \E r \in inflight : CreateResp(r)
  \/ \E n \in Range(filteredNotes) :
       \E c \in {n.content} \cup EditContents : TileSave(n, n.title, c)
  \/ \E n \in Range(filteredNotes) : PinToggle(n)
  \/ \E n \in Range(filteredNotes), c \in Colors : ColorChange(n, c)
  \/ \E n \in Range(filteredNotes) : HandleDragStart(n)
  \/ \E dst \in 0..Len(filteredNotes) : HandleDragEnd(dst)
  \/ \E n \in Range(filteredNotes) : TileDelete(n)
  \/ \E r \in inflight : UpdateResp(r)
  \/ \E r \in inflight : DeleteResp(r)
  \/ \E n \in Range(filteredNotes) : HandleNoteEdit(n)
  \/ ModalClose
  \/ \E p \in BOOLEAN : ModalSave(editingNote[1].title, p)
  \/ ModalDelete
  \/ \E n \in bgTimers : BgTimerFire(n)
  \/ \E run \in runs, res \in ServiceResults : BgAIReturn(run, res)
  \/ \E run \in runs : BgUpdateResp(run)
  \/ \E run \in runs : BgMarkResp(run)
  \/ \E run \in runs : BgTasksResp(run)
  \/ ProcessNow
  \/ ApTimerFire
  \/ \E run \in runs :
       \E res \in ServiceResults \cup {SimulatedResults(run.note.content)} :
         ApAIReturn(run, res)
  \/ \E run \in runs : ApUpdateResp(run)
  \/ \E run \in runs : ApTasksResp(run)

Spec == Init /\ [][Next]_vars

\* --------------------------------------------------- a grid of three notes
\* A second starting point for the drag handler, which needs a section of two
\* notes beside another section: two unpinned notes and a newer pinned one.
\* The client itself writes position 0, 0 at insert and nothing but swaps
\* afterwards; position_x and position_y are plain INTEGER columns, and the
\* second store is one whose rows were positioned outside this client.
GridRows(positioned) ==
  {[NewNote(id, "t1", PlainContent, id = 3)
      EXCEPT !.position_x = IF positioned THEN id ELSE 0] : id \in 1..3}

GridStores == {GridRows(FALSE), GridRows(TRUE)}
GridIds == {r.id : r \in GridRows(FALSE)}

GridInit ==
  /\ remoteNotes \in GridStores /\ remoteTasks = {}
  /\ nextId = 4 /\ nextTaskId = 1
  /\ notes = <<>> /\ filteredNotes = <<>> /\ tasks = <<>>
  /\ loading = TRUE /\ isCreating = FALSE
  /\ inflight = {Resp("load", 0, "ok", SeqOfRows(remoteNotes), <<>>),
                 Resp("loadTasks", 0, "ok", <<>>, <<>>)}
  /\ bgTimers = {} /\ runs = {}
  /\ editingNote = <<>> /\ apStatus = "idle" /\ apProcessing = FALSE /\ apTimer = <<>>
  /\ apVariant = "simulated" /\ draggedItem = <<>> /\ SignedIn
  /\ thrown = "none" /\ deletedAck = {} /\ windowCalls = [n \in GridIds |-> 0]
  /\ ops = 0 /\ reloads = 0 /\ fails = 0 /\ selectedTags = <<>>

\* the steps of TileGrid and of the updates it sends, and the edit modal
\* with the AIProcessor run it starts on an unprocessed note
GridNext ==
  \/ \E r \in inflight : LoadResp(r)
  \/ \E r \in inflight : LoadTasksResp(r)
  \/ \E n \in Range(filteredNotes) : PinToggle(n)
  \/ \E n \in Range(filteredNotes) : HandleDragStart(n)
  \/ \E dst \in 0..Len(filteredNotes) : HandleDragEnd(dst)
  \/ \E r \in inflight : UpdateResp(r)
  \/ \E n \in Range(filteredNotes) : HandleNoteEdit(n)
  \/ ModalClose
  \/ ApTimerFire
  \/ \E run \in runs : ApAIReturn(run, SimulatedResults(run.note.content))
  \/ \E run \in runs : ApUpdateResp(run)

GridSpec == GridInit /\ [][GridNext]_vars

\* ------------------------------------------- runs on the fallback results
\* A third starting point, for processNoteWithAI's catch block: the session
\* of Init, in which the user creates one note out of the lines above and the
\* 2 s background run processes it, whatever becomes of the service call.
FallbackInit == Init /\ apVariant = "openai"

FallbackNext ==
  \/ \E r \in inflight : LoadResp(r)
  \/ \E r \in inflight : LoadTasksResp(r)
  \/ \E t \in Titles, c \in FallbackContents : CreateNote(t, c, FALSE)
  \/ \E r \in inflight : CreateResp(r)
  \/ \E n \in bgTimers : BgTimerFire(n)
  \/ \E run \in runs, o \in Outcomes :
       BgAIReturn(run, ProcessNoteWithAI(run.note.content, o))
  \/ \E run \in runs : BgUpdateResp(run)
  \/ \E run \in runs : BgMarkResp(run)
  \/ \E run \in runs : BgTasksResp(run)

FallbackSpec == FallbackInit /\ [][FallbackNext]_vars

\* ------------------------------------------------------- the task manager
\* TaskManager, the 'tasks' view, with createTask, updateTask and deleteTask
\* of the synchronizer. A task made by hand has no note: note_id is NULL.
NoNote == 0
TaskTitles == {CallPhrase}

\* the columns of the tasks table
TaskColumns ==
  {"id", "user_id", "note_id", "title", "description", "is_completed",
   "due_date", "reminder_time", "priority", "created_at", "updated_at",
   "completed_at"}

\* newTask of createTask, with the id the store gives it
NewTask(id, title) ==
  [id |-> id, user_id |-> UserId, note_id |-> NoNote, title |-> title,
   is_completed |-> FALSE, priority |-> "medium"]

\* TaskManager.handleTaskToggle: onTaskUpdate(taskId, { completed })
ToggleUpdates(t) == [completed |-> ~t.is_completed]

\* an update is refused when it names a column the table does not have
TaskUpdateAccepted(u) == DOMAIN u \subseteq TaskColumns

TaskCalls == {r \in inflight : r.k \in {"createTask", "updateTask", "deleteTask"}}
TasksOpen == ~loading /\ editingNote = <<>> /\ draggedItem = <<>>
CanCallTasks == ops < MaxOps /\ Cardinality(TaskCalls) < MaxInflight

\* createTask up to its await: insert([newTask]).select().single()
CreateTask(title) ==
  /\ TasksOpen /\ CanCallTasks
  /\ ops' = ops + 1
  /\ \E st \in {"ok", "error"} :
       /\ Answers(st)
       /\ remoteTasks' = IF st = "ok"
                         THEN remoteTasks \cup {NewTask(nextTaskId, title)}
                         ELSE remoteTasks
       /\ nextTaskId' = IF st = "ok" THEN nextTaskId + 1 ELSE nextTaskId
       /\ inflight' = inflight \cup
            {Resp("createTask", IF st = "ok" THEN nextTaskId ELSE 0, st, <<>>,
                  IF st = "ok" THEN <<NewTask(nextTaskId, title)>> ELSE <<>>)}
  /\ UNCHANGED <<remoteNotes, nextId, notes, filteredNotes, tasks, loading,
                 isCreating, enrichVars, apVars, shellVars, thrown, deletedAck,
                 reloads>>

\* createTask after its await: setTasks(prev => [data, ...prev])
CreateTaskResp(r) ==
  /\ r \in inflight /\ r.k = "createTask"
  /\ inflight' = inflight \ {r}
  /\ IF r.st = "ok"
     THEN /\ tasks' = r.tasks \o tasks
          /\ Effect(notes)
          /\ thrown' = thrown
     ELSE /\ thrown' = "createTask"
          /\ UNCHANGED <<tasks, filteredNotes>>
  /\ UNCHANGED <<remoteVars, notes, loading, isCreating, enrichVars, apVars,
                 shellVars, deletedAck, ops, reloads, fails>>

\* updateTask up to its await: update(updates).eq('id', taskId).select().single()
UpdateTask(t, u) ==
  /\ TasksOpen /\ CanCallTasks /\ t \in Range(tasks)
  /\ ops' = ops + 1
  /\ \E st \in {"ok", "error"} :
       LET hit == {q \in remoteTasks : Matches(q, "updateTask", t.id)}
           refused == ~TaskUpdateAccepted(u) \/ hit = {}
       IN /\ refused => st = "error"
          /\ IF refused THEN Ok ELSE Answers(st)
          /\ remoteTasks' = IF st = "ok"
                            THEN {IF q \in hit THEN Merge(q, u) ELSE q
                                    : q \in remoteTasks}
                            ELSE remoteTasks
          /\ inflight' = inflight \cup
               {Resp("updateTask", t.id, st, <<>>,
                     IF st = "ok" THEN <<Merge(t, u)>> ELSE <<>>)}
  /\ UNCHANGED <<remoteNotes, nextId, nextTaskId, notes, filteredNotes, tasks,
                 loading, isCreating, enrichVars, apVars, shellVars, thrown,
                 deletedAck, reloads>>

\* updateTask after its await: setTasks(prev => prev.map(...))
UpdateTaskResp(r) ==
  /\ r \in inflight /\ r.k = "updateTask"
  /\ inflight' = inflight \ {r}
  /\ IF r.st = "ok"
     THEN /\ tasks' = [i \in 1..Len(tasks) |->
                        IF tasks[i].id = r.id THEN r.tasks[1] ELSE tasks[i]]
          /\ Effect(notes)
          /\ thrown' = thrown
     ELSE /\ thrown' = "updateTask"
          /\ UNCHANGED <<tasks, filteredNotes>>
  /\ UNCHANGED <<remoteVars, notes, loading, isCreating, enrichVars, apVars,
                 shellVars, deletedAck, ops, reloads, fails>>

\* deleteTask up to its await: delete().eq('id', taskId)
DeleteTask(t) ==
  /\ TasksOpen /\ CanCallTasks /\ t \in Range(tasks)
  /\ ops' = ops + 1
  /\ \E st \in {"ok", "error"} :
       /\ Answers(st)
       /\ remoteTasks' = IF st = "ok"
                         THEN {q \in remoteTasks : ~Matches(q, "deleteTask", t.id)}
                         ELSE remoteTasks
       /\ inflight' = inflight \cup {Resp("deleteTask", t.id, st, <<>>, <<>>)}
  /\ UNCHANGED <<remoteNotes, nextId, nextTaskId, notes, filteredNotes, tasks,
                 loading, isCreating, enrichVars, apVars, shellVars, thrown,
                 deletedAck, reloads>>

\* deleteTask after its await: setTasks(prev => prev.filter(...))
DeleteTaskResp(r) ==
  /\ r \in inflight /\ r.k = "deleteTask"
  /\ inflight' = inflight \ {r}
  /\ IF r.st = "ok"
     THEN /\ tasks' = SelectSeq(tasks, LAMBDA x : x.id # r.id)
          /\ Effect(notes)
          /\ thrown' = thrown
     ELSE /\ thrown' = "deleteTask"
          /\ UNCHANGED <<tasks, filteredNotes>>
  /\ UNCHANGED <<remoteVars, notes, loading, isCreating, enrichVars, apVars,
                 shellVars, deletedAck, ops, reloads, fails>>

\* ------------------------------------------------ a store of two accounts
\* A fourth starting point: the two tables also hold a note and a task of
\* another account, older than the rows of this session's user, who has the
\* note of Init and one task made by hand.
OtherRows == {[NewNote(0, "t1", PlainContent, FALSE) EXCEPT !.user_id = OtherUserId]}
OtherTasks == {[NewTask(0, CallPhrase) EXCEPT !.user_id = OtherUserId]}
OwnTasks == {NewTask(1, CallPhrase)}

OwnerInit ==
  /\ remoteNotes = InitialRows \cup OtherRows
  /\ remoteTasks = OwnTasks \cup OtherTasks
  /\ nextId = StoredNotes + 1 /\ nextTaskId = Cardinality(OwnTasks) + 1
  /\ notes = <<>> /\ filteredNotes = <<>> /\ tasks = <<>>
  /\ loading = TRUE /\ isCreating = FALSE
  /\ inflight = {Resp("load", 0, "ok", SelectNotes, <<>>),
                 Resp("loadTasks", 0, "ok", <<>>, SelectTasks)}
  /\ bgTimers = {} /\ runs = {}
  /\ editingNote = <<>> /\ apStatus = "idle" /\ apProcessing = FALSE /\ apTimer = <<>>
  /\ apVariant = "simulated" /\ draggedItem = <<>> /\ SignedIn
  /\ thrown = "none" /\ deletedAck = {} /\ windowCalls = [n \in NoteIds |-> 0]
  /\ ops = 0 /\ reloads = 0 /\ fails = 0 /\ selectedTags = <<>>

\* every call of the synchronizer that reads or writes one of the two tables
OwnerNext ==
  \/ LoadEffect
  \/ \E r \in inflight : LoadResp(r)
  \/ \E r \in inflight : LoadTasksResp(r)
  \/ \E t \in Titles, c \in CreateContents : CreateNote(t, c, FALSE)
  \/ \E r \in inflight : CreateResp(r)
  \/ \E n \in Range(filteredNotes) : PinToggle(n)
  \/ \E r \in inflight : UpdateResp(r)
  \/ \E n \in Range(filteredNotes) : TileDelete(n)
  \/ \E r \in inflight : DeleteResp(r)
  \/ \E n \in bgTimers : BgTimerFire(n)
  \/ \E run \in runs, res \in ServiceResults : BgAIReturn(run, res)
  \/ \E run \in runs : BgUpdateResp(run)
  \/ \E run \in runs : BgMarkResp(run)
  \/ \E run \in runs : BgTasksResp(run)
  \/ \E title \in TaskTitles : CreateTask(title)
  \/ \E r \in inflight : CreateTaskResp(r)
  \/ \E t \in Range(tasks) : UpdateTask(t, ToggleUpdates(t))
  \/ \E r \in inflight : UpdateTaskResp(r)
  \/ \E t \in Range(tasks) : DeleteTask(t)
  \/ \E r \in inflight : DeleteTaskResp(r)

OwnerSpec == OwnerInit /\ [][OwnerNext]_vars

\* -------------------------------------------------- the guard of the app
\* AuthGuard on the page "/", AuthPage on the page "/auth", and the auth
\* client both subscribe to. getSession() resolves with the session of the
\* moment it resolves; a change of the session reaches the subscriber later,
\* as an event, in the order of the changes.
AuthEvent(e, s) == [event |-> e, session |-> s]

\* what AuthGuard returns: the spinner, null, or its children
Rendered == route = "/" /\ ~authLoading /\ authUser # <<>>

\* router.push(path): the page change is asked for and happens later; a
\* push replaces the pending one, and a push of the page shown changes none
Pushed(path) == IF path = route THEN <<>> ELSE <<path>>

\* setUser(null) of the auth change callback, and a callback without it
UserKept(user) == user
ClearedUser(user) == <<>>

\* what the steps of the two pages leave alone: TileNotesApp and its store
appVars ==
  <<remoteVars, notes, filteredNotes, tasks, loading, isCreating, inflight,
    enrichVars, apVars, apVariant, draggedItem, selectedTags, thrown,
    deletedAck>>

\* AuthForm: signInWithPassword succeeds, here or in another tab
SignIn ==
  /\ session = <<>> /\ ops < MaxOps
  /\ ops' = ops + 1
  /\ session' = <<UserId>>
  /\ authEvents' = Append(authEvents, AuthEvent("SIGNED_IN", <<UserId>>))
  /\ UNCHANGED <<appVars, authUser, authLoading, route, nav, checks, reloads, fails>>

\* handleSignOut: supabase.auth.signOut(), here or in another tab
SignOut ==
  /\ session # <<>> /\ ops < MaxOps
  /\ ops' = ops + 1
  /\ session' = <<>>
  /\ authEvents' = Append(authEvents, AuthEvent("SIGNED_OUT", <<>>))
  /\ UNCHANGED <<appVars, authUser, authLoading, route, nav, checks, reloads, fails>>

\* the auth client renews the token of the session
TokenRefreshed ==
  /\ session # <<>> /\ reloads < MaxReloads
  /\ reloads' = reloads + 1
  /\ authEvents' = Append(authEvents, AuthEvent("TOKEN_REFRESHED", session))
  /\ UNCHANGED <<appVars, session, authUser, authLoading, route, nav, checks,
                 ops, fails>>

\* the page change a push asked for: the page mounts and its effect calls
\* checkAuth; a guard that mounts starts with user null and loading true
RouteChange ==
  /\ nav # <<>>
  /\ route' = nav[1] /\ nav' = <<>>
  /\ checks' = checks \cup {nav[1]}
  /\ IF nav[1] = "/"
     THEN authUser' = <<>> /\ authLoading' = TRUE
     ELSE UNCHANGED <<authUser, authLoading>>
  /\ UNCHANGED <<appVars, session, authEvents, ops, reloads, fails>>

\* AuthGuard.checkAuth after its await. A guard that has unmounted meanwhile
\* still runs it: its setUser and setLoading reach nothing, its push does.
GuardCheckReturn(st) ==
  /\ "/" \in checks
  /\ checks' = checks \ {"/"}
  /\ Answers(st)
  /\ IF st = "ok" /\ session # <<>>
     THEN /\ authUser' = IF route = "/" THEN session ELSE authUser
          /\ UNCHANGED nav
     ELSE /\ nav' = Pushed("/auth")
          /\ UNCHANGED authUser
  /\ authLoading' = IF route = "/" THEN FALSE ELSE authLoading
  /\ UNCHANGED <<appVars, session, route, authEvents, ops, reloads>>

\* the callback AuthGuard gave to onAuthStateChange
GuardAuthChange ==
  /\ route = "/" /\ authEvents # <<>>
  /\ authEvents' = Tail(authEvents)
  /\ LET ev == Head(authEvents)
     IN IF ev.event = "SIGNED_OUT" \/ ev.session = <<>>
        THEN /\ authUser' = ClearedUser(authUser)
             /\ nav' = Pushed("/auth")
        ELSE /\ authUser' = ev.session
             /\ UNCHANGED nav
  /\ UNCHANGED <<appVars, session, authLoading, route, checks, ops, reloads, fails>>

\* AuthPage.checkAuth after its await: if (session) router.push('/')
PageCheckReturn ==
  /\ "/auth" \in checks
  /\ checks' = checks \ {"/auth"}
  /\ nav' = IF session # <<>> THEN Pushed("/") ELSE nav
  /\ UNCHANGED <<appVars, session, authUser, authLoading, route, authEvents,
                 ops, reloads, fails>>

\* the callback AuthPage gave to onAuthStateChange
PageAuthChange ==
  /\ route = "/auth" /\ authEvents # <<>>
  /\ authEvents' = Tail(authEvents)
  /\ LET ev == Head(authEvents)
     IN nav' = IF ev.event = "SIGNED_IN" /\ ev.session # <<>>
               THEN Pushed("/") ELSE nav
  /\ UNCHANGED <<appVars, session, authUser, authLoading, route, checks, ops,
                 reloads, fails>>

\* the browser opens "/": the guard has mounted and awaits getSession();
\* TileNotesApp, its child, has not mounted
AuthInit ==
  /\ remoteNotes = InitialRows /\ remoteTasks = {}
  /\ nextId = StoredNotes + 1 /\ nextTaskId = 1
  /\ notes = <<>> /\ filteredNotes = <<>> /\ tasks = <<>>
  /\ loading = TRUE /\ isCreating = FALSE /\ inflight = {}
  /\ bgTimers = {} /\ runs = {}
  /\ editingNote = <<>> /\ apStatus = "idle" /\ apProcessing = FALSE /\ apTimer = <<>>
  /\ apVariant = "simulated" /\ draggedItem = <<>>
  /\ session \in {<<>>, <<UserId>>}
  /\ authUser = <<>> /\ authLoading = TRUE /\ route = "/" /\ nav = <<>>
  /\ authEvents = <<>> /\ checks = {"/"}
  /\ thrown = "none" /\ deletedAck = {} /\ windowCalls = [n \in NoteIds |-> 0]
  /\ ops = 0 /\ reloads = 0 /\ fails = 0 /\ selectedTags = <<>>

AuthNext ==
  \/ SignIn
  \/ SignOut
  \/ TokenRefreshed
  \/ RouteChange
  \/ \E st \in {"ok", "error"} : GuardCheckReturn(st)
  \/ GuardAuthChange
  \/ PageCheckReturn
  \/ PageAuthChange

AuthSpec == AuthInit /\ [][AuthNext]_vars

\* -------------------------------------------------------------- properties
\* the responses a step has handled, and the ones it has sent
Handled == inflight \ inflight'
Sent == inflight' \ inflight

\* how often id occurs in s
Occurrences(s, id) == Cardinality({i \in 1..Len(s) : s[i].id = id})

C2_UpdateAppliedAfterAck ==
  [][ /\ (\E r \in Sent : r.k = "update") =>
           notes' = notes /\ filteredNotes' = filteredNotes
      /\ \A r \in Handled :
           r.k = "update" =>
             IF r.st = "ok"
             THEN \A i \in 1..Len(notes) :
                    notes[i].id = r.id => r.data[1] \in Range(notes')
             ELSE /\ notes' = notes /\ filteredNotes' = filteredNotes
                  /\ thrown' = "updateNote" ]_vars

\* C2 happens: one update has been rejected to its caller, and another one,
\* which the store has applied, is in flight while the local record still
\* holds the old values
C2_Witness ==
  /\ thrown = "updateNote"
  /\ \E r \in inflight :
       /\ r.k = "update" /\ r.st = "ok"
       /\ r.id \in Ids(notes) /\ r.data[1] \notin Range(notes)
       /\ r.data[1] \in remoteNotes

\* C3: when the insert of createNote is rejected (an error, or no row), the
\* call throws, notes and filteredNotes are unchanged and no enrichment timer
\* is scheduled.
C3_RejectedCreateLeavesNoTrace ==
  [][ \A r \in Handled :
        (r.k = "create" /\ r.st # "ok") =>
          /\ thrown' = "createNote"
          /\ notes' = notes /\ filteredNotes' = filteredNotes
          /\ bgTimers' = bgTimers ]_vars

\* C3 happens: a createNote has thrown with notes on screen and no timer set
C3_Witness ==
  /\ thrown = "createNote" /\ ~isCreating
  /\ notes # <<>> /\ Len(filteredNotes) = Len(notes)
  /\ bgTimers = {} /\ Ids(notes) = {r.id : r \in remoteNotes}

\* C4: on a successful createNote the returned record is in the local
\* collection exactly once, at index 0 when it is pinned and right after the
\* last pinned note when it is not, a pinned new note precedes every unpinned
\* note, and the notes present before keep their relative order.
C4_CreatedAddedOnce ==
  [][ \A r \in Handled :
        (r.k = "create" /\ r.st = "ok") =>
          LET d == r.data[1]
              at == IF d.pinned THEN 1 ELSE Len(PinnedOf(notes)) + 1
          IN /\ Occurrences(notes', d.id) = 1
             /\ notes'[at] = d
             /\ \A i \in 1..(at - 1) : notes'[i].pinned
             /\ \A i \in (at + 1)..Len(notes') : d.pinned => i > 1
             /\ [i \in 1..Len(notes) |-> notes'[IF i < at THEN i ELSE i + 1]] = notes
    ]_vars

\* C5: when deleteNote succeeds the note is absent from notes and from the
\* rendered collection, the store holds no row of it any more and no reload
\* sent from then on returns it; when the delete is rejected both collections
\* are unchanged and the error is rethrown.
C5_DeletedStaysDeleted ==
  [][ /\ \A r \in Handled :
           r.k = "delete" =>
             IF r.st = "ok"
             THEN r.id \notin Ids(notes') /\ r.id \notin Ids(filteredNotes')
             ELSE /\ notes' = notes /\ filteredNotes' = filteredNotes
                  /\ thrown' = "deleteNote"
      /\ \A id \in deletedAck' :
           /\ \A row \in remoteNotes' : row.id # id
           /\ \A r \in Sent : r.k = "load" => id \notin Ids(r.data) ]_vars

\* C5 happens: a delete has been acknowledged, the note is gone from both
\* collections, and a reload sent since has come back without it
C5_Witness ==
  \E id \in deletedAck :
    /\ id \notin Ids(notes) /\ id \notin Ids(filteredNotes)
    /\ reloads > 0 /\ notes # <<>>
    /\ \A r \in inflight : r.k # "load"
    /\ thrown = "none"

\* the step closes the modal (which only marks the runs of AIProcessor as
\* belonging to an unmounted component)
Closing == editingNote # <<>> /\ editingNote' = <<>>

\* the runs a step has started, the ones it has taken past an await, and
\* what these have become
Started == {r \in runs' \ runs : r.stage = "ai" /\ ~Closing}
Moved == {r \in runs \ runs' : ~Closing}
Resumed == {r \in runs' \ runs : r.stage # "ai" /\ ~Closing}

\* the row of note id in the store has ai_processed_at set
RemoteProcessed(id) == \E row \in remoteNotes : row.id = id /\ row.ai_processed_at

TrimmedLength(s) ==
  LET inked == {i \in 1..Len(s) : s[i] # " "}
  IN IF inked = {} THEN 0
     ELSE (CHOOSE i \in inked : \A j \in inked : j <= i)
          - (CHOOSE i \in inked : \A j \in inked : i <= j) + 1

\* C8: a note whose trimmed content has at most 10 characters has no timer of
\* createNote, no timer of AIProcessor and no run started by a timer.
C8_ShortContentNeverScheduled ==
  /\ \A n \in bgTimers : TrimmedLength(n.content) > 10
  /\ apTimer # <<>> => TrimmedLength(apTimer[1].content) > 10
  /\ \A r \in runs : r.auto => TrimmedLength(r.note.content) > 10

\* C8 happens: a note of 12 characters, 10 of them between two blanks, has
\* been created and opened in the modal, and nothing is scheduled
C8_Witness ==
  /\ editingNote # <<>> /\ editingNote[1].content = PaddedContent
  /\ Len(editingNote[1].content) > 10
  /\ ~editingNote[1].ai_processed_at
  /\ apTimer = <<>> /\ bgTimers = {} /\ runs = {}

C10_RunWritesFieldsAndTasks ==
  [][ \A r \in Moved :
        /\ r.stage = "ai" =>
             \A q \in Resumed :
               (q.stage = "upd" /\ q.st = "ok") =>
                 \A row \in remoteNotes' :
                   row.id = r.note.id =>
                     /\ row.ai_processed_at /\ row.ai_tags = q.res.tags
                     /\ q.res.summary # Undefined => row.ai_summary = q.res.summary
        /\ (/\ r.stage = "upd" /\ r.st = "ok" /\ r.res.tasks # <<>>
            /\ fails' = fails /\ RowsWithId(r.note.id) # {}) =>
             LET new == remoteTasks' \ remoteTasks
             IN /\ Cardinality(new) = Len(r.res.tasks)
                /\ \A t \in new :
                     /\ ~t.is_completed /\ t.priority = "medium"
                     /\ t.user_id = UserId /\ t.note_id = r.note.id ]_vars

\* the three fields an enrichment run writes
AiFields(r) == <<r.ai_tags, r.ai_summary, r.ai_processed_at>>

\* some row of the notes table has other enrichment fields after the step
AiFieldsChanged ==
  \E r \in remoteNotes : \E q \in remoteNotes' :
    r.id = q.id /\ AiFields(r) # AiFields(q)

\* C11: a step in which a user edit (tile save, color change, pin toggle,
\* modal save, drag reposition) sends its update leaves ai_tags, ai_summary
\* and ai_processed_at of every stored row as they were, and a step that
\* changes one of them in the store is a step of an enrichment run.
C11_EditsLeaveEnrichmentFields ==
  [][/\ (\E r \in Sent : r.k = "update") => ~AiFieldsChanged
     /\ AiFieldsChanged => Moved # {}]_vars

\* an edit was sent for a row that an enrichment run had already written, and
\* the row that came back still carries what the run wrote
C11_Witness ==
  \E r \in inflight :
    /\ r.k = "update" /\ r.st = "ok"
    /\ r.data[1].ai_processed_at /\ r.data[1].ai_tags # <<>>
    /\ r.data[1].color # DefaultColor

\* position_x, position_y of the stored row with this id, before the step
PosOf(id) ==
  LET r == CHOOSE q \in remoteNotes : q.id = id IN <<r.position_x, r.position_y>>
\* and after it
PosOfNext(id) ==
  LET r == CHOOSE q \in remoteNotes' : q.id = id IN <<r.position_x, r.position_y>>

\* the step is a drop that sends updates
Dropped == draggedItem # <<>> /\ draggedItem' = <<>> /\ Sent # {}

\* C12: on a drop on another slot the two updates are for the dragged note
\* and for a note of the section the drag happened in, and when the store
\* accepts both, these two rows have exchanged their positions and every
\* other row has kept its own.
C12_DropSwapsWithinSection ==
  [][Dropped =>
       LET sec == Section(filteredNotes, draggedItem[1].pinned)
           ids == {r.id : r \in Sent}
       IN /\ \E i \in 1..Len(sec) :
               sec[i].id # draggedItem[1].id /\ ids = {draggedItem[1].id, sec[i].id}
          /\ (\A r \in Sent : r.st = "ok") =>
               /\ \E a, b \in ids :
                    a # b /\ PosOfNext(a) = PosOf(b) /\ PosOfNext(b) = PosOf(a)
               /\ \A q \in remoteNotes : q.id \notin ids => q \in remoteNotes']_vars

\* position_x, position_y the grid shows for the note with this id
ShownPos(id) ==
  LET n == CHOOSE q \in Range(filteredNotes) : q.id = id
  IN <<n.position_x, n.position_y>>

\* C13: when exactly one of the two updates of a drop is rejected, the other
\* one is applied all the same (its row takes the position the grid showed
\* for the other note, which keeps its own), and the handler of the rejection
\* sends nothing and changes neither the store nor the local collection: it
\* only rethrows.
C13_HalfSwapIsKept ==
  [][/\ (Dropped /\ fails' = fails + 1) =>
          \E good, bad \in {r \in inflight' : r.k = "update"} :
            /\ good.st = "ok" /\ bad.st = "error" /\ good.id # bad.id
            /\ PosOfNext(good.id) = ShownPos(bad.id)
            /\ PosOfNext(bad.id) = PosOf(bad.id)
     /\ (\E r \in Handled : r.k = "update" /\ r.st = "error") =>
          /\ Sent = {} /\ remoteNotes' = remoteNotes
          /\ notes' = notes /\ thrown' = UpdateCatch]_vars

\* everything has settled after a drop of which one update was rejected: two
\* rows that had different positions hold the same one, in the store and
\* in the local collection
C13_Witness ==
  /\ inflight = {} /\ draggedItem = <<>> /\ thrown = UpdateCatch
  /\ Range(notes) = remoteNotes
  /\ \E a, b \in remoteNotes :
       a.id # b.id /\ a.position_x # 0 /\ a.position_x = b.position_x

\* the step handles the acknowledgement of an update that changes the pin of
\* a note the local collection holds
PinAcked(r) ==
  /\ r \in Handled /\ r.k = "update" /\ r.st = "ok"
  /\ \E i \in 1..Len(notes) : notes[i].id = r.id /\ notes[i].pinned # r.data[1].pinned

Heuristic(content) ==
  [tags |-> ExtractBasicTags(content), summary |-> ExcerptOf(content),
   tasks |-> ExtractBasicTasks(content)]

\* the background runs whose call of processNoteWithAI has just returned
Returned == {r \in runs' \ runs : r.path = "bg" /\ r.stage = "upd"}

\* C15: whatever way the call of the completion service fails (it throws, it
\* answers without content, its content is no JSON), processNoteWithAI returns
\* the heuristic result instead of rejecting; the run goes on with what was
\* returned: it sends the update that sets ai_processed_at and the tags, and
\* nothing is thrown to a caller.
C15_FailedCallFallsBack ==
  [][/\ \A r \in runs : \A o \in Outcomes :
          o.kind \in CallFailures =>
            ProcessNoteWithAI(r.note.content, o) = Heuristic(r.note.content)
     /\ \A r \in Returned :
          /\ r.res \in {Heuristic(r.note.content)} \cup ServiceResults
          /\ thrown' = thrown
          /\ r.st = "ok" =>
               \A q \in remoteNotes' :
                 q.id = r.note.id => q.ai_processed_at /\ q.ai_tags = r.res.tags]_vars

\* a run that got the heuristic result has written it: the stored note is
\* marked as processed and carries the heuristic tags, and nothing was thrown
C15_Witness ==
  \E r \in runs : \E q \in remoteNotes :
    /\ r.path = "bg" /\ r.stage = "upd" /\ r.st = "ok"
    /\ r.res = Heuristic(r.note.content) /\ r.res.tags # <<>>
    /\ q.id = r.note.id /\ q.ai_processed_at /\ q.ai_tags = r.res.tags
    /\ thrown = "none"

\* the tokens extractBasicTags chooses from: the lower-cased words longer
\* than 3 characters that are no stop word, in their order
Remaining(content) ==
  SelectSeq(SplitWs(Lower(content), 1),
            LAMBDA w : Len(w) > 3 /\ w \notin CommonWords)

\* how often w occurs in ws, and where it occurs first
CountIn(ws, w) == Cardinality({i \in 1..Len(ws) : ws[i] = w})
FirstIn(ws, w) == CHOOSE i \in 1..Len(ws) :
                    ws[i] = w /\ \A j \in 1..(i - 1) : ws[j] # w

NoRepeats(s) == \A i, j \in 1..Len(s) : i # j => s[i] # s[j]

\* the runs that hold the heuristic result of their note
FallbackRuns ==
  {r \in runs : r.path = "bg" /\ r.stage # "ai"
                  /\ r.res = Heuristic(r.note.content)}

\* C16 as stated: the fallback tags are the most frequent distinct tokens
\* that remain after stop-word removal: at most 5, none repeated, and no
\* token that was left out occurs more often than one that was taken.
C16_TagsAreMostFrequent ==
  \A r \in FallbackRuns :
    LET ws == Remaining(r.note.content)
        tags == r.res.tags
    IN /\ Len(tags) <= 5 /\ NoRepeats(tags)
       /\ Range(tags) \subseteq Range(ws)
       /\ \A w \in Range(ws) \ Range(tags) : \A t \in Range(tags) :
            CountIn(ws, t) >= CountIn(ws, w)

\* C16, amended: the fallback tags are the first distinct tokens that remain
\* after stop-word removal, in the order of their first occurrence: at most
\* 5, none repeated, and every token that was left out occurs first after
\* all five that were taken.
C16_TagsAreFirstDistinct ==
  \A r \in FallbackRuns :
    LET ws == Remaining(r.note.content)
        tags == r.res.tags
    IN /\ Len(tags) <= 5 /\ NoRepeats(tags)
       /\ Range(tags) \subseteq Range(ws)
       /\ \A i, j \in 1..Len(tags) :
            i < j => FirstIn(ws, tags[i]) < FirstIn(ws, tags[j])
       /\ \A w \in Range(ws) \ Range(tags) :
            /\ Len(tags) = 5
            /\ \A t \in Range(tags) : FirstIn(ws, t) < FirstIn(ws, w)

\* a fallback run on a note with more than five distinct tokens, one of the
\* tokens left out occurring more often than one of the tags
C16_Witness ==
  \E r \in FallbackRuns :
    LET ws == Remaining(r.note.content)
    IN /\ Len(r.res.tags) = 5
       /\ \E w \in Range(ws) \ Range(r.res.tags) : \E t \in Range(r.res.tags) :
            CountIn(ws, w) > CountIn(ws, t)

\* the phrases the four patterns of extractBasicTasks find in the content
Phrases(content) ==
  LET ms == TaskMatches(content)
  IN {Trim(Cleaned(ms[i], 1)) : i \in 1..Len(ms)}

\* C17: the fallback task list holds each phrase at most once and at most 5
\* phrases, each taken from a bold span, an unchecked checkbox line or a
\* TODO/TASK line of the content; and the step in which a fallback run
\* inserts its tasks adds at most 5 Task records, one for each listed phrase.
C17_FallbackTasksBounded ==
  [][/\ \A r \in FallbackRuns :
          /\ Len(r.res.tasks) <= 5 /\ NoRepeats(r.res.tasks)
          /\ Range(r.res.tasks) \subseteq Phrases(r.note.content)
     /\ \A r \in FallbackRuns :
          r.stage = "upd" /\ r \notin runs' =>
            /\ Cardinality(remoteTasks' \ remoteTasks) <= 5
            /\ \A t \in remoteTasks' \ remoteTasks :
                 t.note_id = r.note.id /\ t.title \in Range(r.res.tasks)]_vars

\* the content holds six different phrases and the store holds five Task
\* records of the note
C17_Witness ==
  \E n \in remoteNotes :
    /\ Cardinality({ph \in Phrases(n.content) : Len(ph) > 3}) > 5
    /\ Cardinality({t \in remoteTasks : t.note_id = n.id}) = 5

\* the note with this id was stored once and its row is gone
Deleted(id) == id < nextId /\ RowsWithId(id) = {}

\* the step is one of an enrichment run: a run leaves the await it was at
EnrichmentStep == Moved # {}

DeletedNoteOutOfCollections ==
  [][EnrichmentStep =>
       \A id \in NoteIds : Deleted(id) =>
         /\ id \in Ids(notes') => id \in Ids(notes)
         /\ id \in Ids(filteredNotes') => id \in Ids(filteredNotes)
         /\ \A q \in remoteNotes' : q.id # id
         /\ \A t \in remoteTasks' : t.note_id # id]_vars

\* the calls whose statement is an insert, a read, or addressed to one row
InsertCalls == {"create", "createTask"}
ReadCalls == {"load", "loadTasks"}
RowCalls == {"update", "delete", "updateTask", "deleteTask"}

\* the rows a step adds to or changes in the two tables are the user's
WritesOwnRows ==
  /\ \A r \in (remoteNotes' \ remoteNotes) \cup (remoteNotes \ remoteNotes') :
        r.user_id = UserId
  /\ \A t \in (remoteTasks' \ remoteTasks) \cup (remoteTasks \ remoteTasks') :
        t.user_id = UserId

\* the rows a step hands to the client, and the rows the client holds after
\* it, are the user's
ReadsOwnRows ==
  /\ \A q \in Sent : /\ \A n \in Range(q.data) : n.user_id = UserId
                     /\ \A t \in Range(q.tasks) : t.user_id = UserId
  /\ \A n \in Range(notes') : n.user_id = UserId
  /\ \A t \in Range(tasks') : t.user_id = UserId

SignOutPending == \E i \in 1..Len(authEvents) : authEvents[i].session = <<>>

\* the steps of AuthGuard: its check returning, and its auth change callback
GuardChecked == route = "/" /\ "/" \in checks /\ "/" \notin checks'
GuardTold == route = "/" /\ authEvents # <<>> /\ authEvents' = Tail(authEvents)

\* the guard is told of a sign-out: a SIGNED_OUT event or a null session
ToldOfSignOut ==
  GuardTold /\ (Head(authEvents).event = "SIGNED_OUT"
                \/ Head(authEvents).session = <<>>)

\* C20 as stated: AuthGuard's children are rendered only while a session
\* user is present; a session check that finds no session renders nothing
\* and navigates to the sign-in route; a SIGNED_OUT event or a null session
\* clears the user and navigates to the sign-in route.
C20_ChildrenOnlyWithSession ==
  [][/\ Rendered' => session' # <<>>
     /\ GuardChecked /\ session = <<>> => ~Rendered' /\ nav' = <<"/auth">>
     /\ ToldOfSignOut => authUser' = <<>> /\ nav' = <<"/auth">>]_vars

\* C20, amended: the children are rendered only while a session user is
\* present or a sign-out is still to be delivered to the guard; a session
\* check that finds no session asks for the sign-in route (and does not
\* clear a user that an earlier event has set); a SIGNED_OUT event or a null
\* session clears the user, which renders nothing, and asks for the sign-in
\* route.
C20_ChildrenUntilToldOfSignOut ==
  [][/\ Rendered' => session' # <<>> \/ SignOutPending'
     /\ GuardChecked /\ session = <<>> =>
          nav' = <<"/auth">> /\ authUser' = authUser
     /\ ToldOfSignOut => authUser' = <<>> /\ ~Rendered' /\ nav' = <<"/auth">>]_vars

\* the guard has been told of a sign-out made after the page was opened: the
\* user is cleared, nothing is rendered and the sign-in route is asked for
C20_Witness ==
  /\ route = "/" /\ nav = <<"/auth">> /\ authUser = <<>> /\ ~authLoading
  /\ session = <<>> /\ authEvents = <<>> /\ ops >= 1

\* a run at one of these stages awaits the answer of a remote write
WriteStages == {"upd", "mark", "tasks"}

\* the runs a step takes past the answer of a write that was rejected, and
\* the writes the step sends for such a run
RejectedRuns == {r \in Moved : r.stage \in WriteStages /\ r.st = "error"}
Followups(r) ==
  {q \in runs' \ runs :
     q.path = r.path /\ q.note.id = r.note.id /\ q.stage \in WriteStages}

\* the handler of a rejected createNote, updateNote or deleteNote sends
\* nothing and writes nothing
RejectedCallIsDropped ==
  (\E r \in Handled : r.k \in {"create", "update", "delete"} /\ r.st # "ok") =>
     Sent = {} /\ remoteNotes' = remoteNotes /\ remoteTasks' = remoteTasks

\* no run sends the write of a stage a second time
NoStageTwice == \A r \in Moved : \A q \in Followups(r) : q.stage # r.stage

\* C21 as stated: no remote write is retried automatically; each user action
\* or enrichment step issues each of its writes at most once, and after a
\* rejected write nothing more is written for that action.
C21_NoWriteAfterRejection ==
  [][/\ RejectedCallIsDropped /\ NoStageTwice
     /\ \A r \in RejectedRuns :
          /\ Followups(r) = {}
          /\ remoteNotes' = remoteNotes /\ remoteTasks' = remoteTasks]_vars

\* C21, amended: no write is sent twice, and a rejected write is followed by
\* no other, with one exception: when the background run's update of the AI
\* fields is rejected, its catch block sends one more update, of
\* ai_processed_at alone; whatever becomes of that one, nothing follows.
C21_OnlyTheCatchWritesAfterRejection ==
  [][/\ RejectedCallIsDropped /\ NoStageTwice
     /\ \A r \in RejectedRuns :
          IF r.path = "bg" /\ r.stage = "upd"
          THEN /\ \A q \in Followups(r) : q.stage = "mark"
               /\ remoteTasks' = remoteTasks
               /\ \A row \in remoteNotes :
                    \/ row \in remoteNotes'
                    \/ /\ row.id = r.note.id
                       /\ [row EXCEPT !.ai_processed_at = TRUE] \in remoteNotes'
          ELSE /\ Followups(r) = {}
               /\ remoteNotes' = remoteNotes /\ remoteTasks' = remoteTasks]_vars

\* the update of a background run was rejected and the update of its catch
\* block has been applied: the row is marked and holds no AI tags
C21_Witness ==
  \E r \in runs :
    /\ r.path = "bg" /\ r.stage = "mark" /\ r.st = "ok" /\ r.res.tags # <<>>
    /\ \E row \in remoteNotes :
         row.id = r.note.id /\ row.ai_processed_at /\ row.ai_tags = <<>>

\* ------------------------------------------------------ the add button
\* FloatingAddButton exists in two versions: the menu of
\* components/FloatingAddButton.tsx, whose entries create a note at once, and
\* the dialog, which asks for a title and a content first. Both hand their
\* noteData to createNote.
NoteTypes == {"text", "voice", "image", "link"}

\* the letters of a note type
TypeChars(type) ==
  CASE type = "text" -> <<"t", "e", "x", "t">>
    [] type = "voice" -> <<"v", "o", "i", "c", "e">>
    [] type = "image" -> <<"i", "m", "a", "g", "e">>
    [] OTHER -> <<"l", "i", "n", "k">>

\* `New ${type} note`, as a content
TypeNote(type) == <<"N", "e", "w", " ">> \o TypeChars(type) \o <<" ", "n", "o", "t", "e">>

\* `New ${modalType} note`, as a title
Placeholder(type) ==
  CASE type = "text" -> "New text note"
    [] type = "voice" -> "New voice note"
    [] type = "image" -> "New image note"
    [] OTHER -> "New link note"

\* what the user has typed into the title input of the dialog, and into its
\* content input; the dialog opens with both empty
TypedTitles == {"", "t1"}
TypedContents == {<<>>, TaskContent}
LinkUrl == <<"u", ".", "s">>

\* a dialog that sends the title input as it is
TypedTitle(noteTitle, modalType) == noteTitle

\* noteTitle || `New ${modalType} note`
DialogTitle(noteTitle, modalType) ==
  IF noteTitle # "" THEN noteTitle ELSE Placeholder(modalType)

\* noteContent || `New ${modalType} note content`, and for a link
\* `${noteContent}\n\nURL: ${linkUrl}`: the Create button of a link note is
\* disabled while linkUrl is empty
DialogContent(noteContent, modalType) ==
  IF modalType = "link"
  THEN noteContent \o <<"\n", "\n", "U", "R", "L", ":", " ">> \o LinkUrl
  ELSE IF noteContent # <<>> THEN noteContent
       ELSE TypeNote(modalType) \o <<" ", "c", "o", "n", "t", "e", "n", "t">>

\* title: '' of the menu
MenuTitle(type) == ""

\* type === 'text' ? 'Start writing...' : `New ${type} note`
MenuContent(type) ==
  IF type = "text"
  THEN <<"S", "t", "a", "r", "t", " ", "w", "r", "i", "t", "i", "n", "g", ".", ".", ".">>
  ELSE TypeNote(type)

\* noteTypes.find(nt => nt.type === type)?.color || '#FFFACD'
MenuColor(type) ==
  CASE type = "text" -> "#FFFACD"
    [] type = "voice" -> "#FFE4E1"
    [] type = "image" -> "#E6F3FF"
    [] OTHER -> "#F0FFF0"

\* createNote's newNote: title: noteData.title || '', color: noteData.color
\* || '#FFFACD', pinned: noteData.pinned || false
NoteOf(id, title, content, color) ==
  [NewNote(id, IF title # "" THEN title ELSE "", content, FALSE)
     EXCEPT !.color = IF color # "" THEN color ELSE DefaultColor]

\* handleCreateNote(type) of the menu
MenuCreate(type) ==
  InsertNote(NoteOf(nextId, MenuTitle(type), MenuContent(type), MenuColor(type)))

\* handleCreateNote() of the dialog opened for modalType; it sends no color
DialogCreate(modalType, noteTitle, noteContent) ==
  InsertNote(NoteOf(nextId, DialogTitle(noteTitle, modalType),
                    DialogContent(noteContent, modalType), ""))

\* "Create Your First Note", shown while the grid is empty
FirstNoteContent ==
  <<"S", "t", "a", "r", "t", " ", "w", "r", "i", "t", "i", "n", "g", " ",
    "y", "o", "u", "r", " ", "t", "h", "o", "u", "g", "h", "t", "s", " ",
    "h", "e", "r", "e", ".", ".", ".">>
FirstNoteCreate ==
  /\ filteredNotes = <<>>
  /\ InsertNote(NoteOf(nextId, "My First Note", FirstNoteContent, ""))

\* a session that starts on an empty notes table and creates a note with
\* one of the buttons
AddInit ==
  /\ remoteNotes = {} /\ remoteTasks = {}
  /\ nextId = StoredNotes + 1 /\ nextTaskId = 1
  /\ notes = <<>> /\ filteredNotes = <<>> /\ tasks = <<>>
  /\ loading = TRUE /\ isCreating = FALSE
  /\ inflight = {Resp("load", 0, "ok", <<>>, <<>>),
                 Resp("loadTasks", 0, "ok", <<>>, <<>>)}
  /\ bgTimers = {} /\ runs = {}
  /\ editingNote = <<>> /\ apStatus = "idle" /\ apProcessing = FALSE /\ apTimer = <<>>
  /\ apVariant = "simulated" /\ draggedItem = <<>> /\ SignedIn
  /\ thrown = "none" /\ deletedAck = {} /\ windowCalls = [n \in NoteIds |-> 0]
  /\ ops = 0 /\ reloads = 0 /\ fails = 0 /\ selectedTags = <<>>

AddNext ==
  \/ \E r \in inflight : LoadResp(r)
  \/ \E r \in inflight : LoadTasksResp(r)
  \/ \E type \in NoteTypes : MenuCreate(type)
  \/ \E type \in NoteTypes, nt \in TypedTitles, nc \in TypedContents :
       DialogCreate(type, nt, nc)
  \/ FirstNoteCreate
  \/ \E r \in inflight : CreateResp(r)
  \/ \E n \in Range(filteredNotes) : PinToggle(n)
  \/ \E r \in inflight : UpdateResp(r)

AddSpec == AddInit /\ [][AddNext]_vars

\* the notes a step inserts into the notes table
Inserted == remoteNotes' \ remoteNotes

\* C22 as stated: a note created from the add-note dialog with an empty
\* title is stored with the placeholder "New <type> note", and no note
\* created through the application is stored with an empty title.
C22_NoEmptyTitle ==
  /\ \A r \in remoteNotes : r.title # ""
  /\ \A i \in 1..Len(notes) : notes[i].title # ""

\* C22, amended: the dialog stores the typed title, or the placeholder of its
\* type when the title input is empty, so never an empty title; neither does
\* "Create Your First Note"; an entry of the menu stores an empty title.
C22_DialogFillsTitleMenuDoesNot ==
  [][/\ \A type \in NoteTypes, nt \in TypedTitles, nc \in TypedContents :
          DialogCreate(type, nt, nc) =>
            \A r \in Inserted :
              /\ r.title = (IF nt = "" THEN Placeholder(type) ELSE nt)
              /\ r.title # ""
     /\ FirstNoteCreate => \A r \in Inserted : r.title # ""
     /\ \A type \in NoteTypes :
          MenuCreate(type) => \A r \in Inserted : r.title = ""
     /\ \A r \in Handled :
          (r.k = "create" /\ r.st = "ok") =>
             \E i \in 1..Len(notes') : notes'[i] = r.data[1]]_vars

\* a voice note of the dialog, made with the title input empty, is in the
\* table and in the grid under its placeholder
C22_Witness ==
  \E i \in 1..Len(notes) :
    /\ notes[i].title = Placeholder("voice") /\ notes[i] \in remoteNotes
    /\ notes[i].content = DialogContent(<<>>, "voice")

\* --------------------------------------------- the subscribed synchronizer
\* The version of TileNotesApp that keeps notes alone and subscribes to the
\* changes of the notes table: every change of one of the user's rows comes
\* back as an event of the channel, and the callback calls loadNotes().
RECURSIVE NewestFirst(_)
\* .order('created_at', { ascending: false })
NewestFirst(rows) ==
  IF rows = {} THEN <<>>
  ELSE LET first == CHOOSE r \in rows : \A o \in rows : r.created_at >= o.created_at
       IN <<first>> \o NewestFirst(rows \ {first})

\* select('*').eq('user_id', user.id).eq('is_archived', false)
SubSelect == NewestFirst({r \in remoteNotes : Matches(r, "load", 0)})

\* postgres_changes, event '*', table notes, filter user_id=eq.<user>: one
\* message for each statement that changed a row of the user; op numbers it
ChangeEvents(before, after, op) ==
  IF {r \in before \cup after : Policy(r)} \ (before \cap after) = {} THEN {}
  ELSE {Resp("change", op, "ok", <<>>, <<>>)}

\* a channel that delivers nothing
NoEvents(before, after, op) == {}

\* the user can act on the grid of this version
SubOpen == ~loading /\ CanCall

\* what a step of this version leaves alone
subFrame ==
  <<remoteTasks, nextTaskId, filteredNotes, tasks, isCreating, enrichVars,
    apVars, shellVars, deletedAck, reloads>>

\* the callback of the subscription: loadNotes() up to its await
SubChange(e) ==
  /\ e \in inflight /\ e.k = "change"
  /\ \E st \in {"ok", "error"} :
       /\ Answers(st)
       /\ inflight' = (inflight \ {e}) \cup
            {Resp("load", e.id, st, IF st = "ok" THEN SubSelect ELSE <<>>, <<>>)}
  /\ UNCHANGED <<remoteNotes, nextId, notes, loading, thrown, ops>>
  /\ UNCHANGED subFrame

\* loadNotes after its await: setNotes(data || []), finally setLoading(false)
SubLoadResp(r) ==
  /\ r \in inflight /\ r.k = "load"
  /\ inflight' = inflight \ {r}
  /\ loading' = FALSE
  /\ notes' = IF r.st = "ok" THEN r.data ELSE notes
  /\ UNCHANGED <<remoteNotes, nextId, thrown, ops, fails>>
  /\ UNCHANGED subFrame

\* createNote up to its await
SubCreate(t, c) ==
  /\ SubOpen /\ nextId <= StoredNotes + MaxCreates
  /\ ops' = ops + 1
  /\ \/ /\ remoteNotes' = remoteNotes \cup {NoteOf(nextId, t, c, "")}
        /\ nextId' = nextId + 1
        /\ inflight' = inflight
             \cup {Resp("create", nextId, "ok", <<NoteOf(nextId, t, c, "")>>, <<>>)}
             \cup ChangeEvents(remoteNotes, remoteNotes', ops')
        /\ Ok
     \/ /\ inflight' = inflight \cup {Resp("create", 0, "error", <<>>, <<>>)}
        /\ Fail
        /\ UNCHANGED <<remoteNotes, nextId>>
  /\ UNCHANGED <<notes, loading, thrown>>
  /\ UNCHANGED subFrame

\* createNote after its await: setNotes(prev => [data, ...prev])
SubCreateResp(r) ==
  /\ r \in inflight /\ r.k = "create"
  /\ inflight' = inflight \ {r}
  /\ IF r.st = "ok"
     THEN notes' = <<r.data[1]>> \o notes /\ thrown' = thrown
     ELSE thrown' = CreateCatch /\ notes' = notes
  /\ UNCHANGED <<remoteNotes, nextId, loading, ops, fails>>
  /\ UNCHANGED subFrame

\* updateNote up to its await: update(updates).eq('id', id)
SubUpdate(id, u) ==
  /\ SubOpen
  /\ ops' = ops + 1
  /\ \/ /\ remoteNotes' = RowsAfterUpdate(id, u)
        /\ inflight' = inflight
             \cup {Resp("update", id, "ok", <<u>>, <<>>)}
             \cup ChangeEvents(remoteNotes, remoteNotes', ops')
        /\ Ok
     \/ /\ inflight' = inflight \cup {Resp("update", id, "error", <<>>, <<>>)}
        /\ Fail
        /\ UNCHANGED remoteNotes
  /\ UNCHANGED <<nextId, notes, loading, thrown>>
  /\ UNCHANGED subFrame

\* updateNote after its await:
\* setNotes(prev => prev.map(note => note.id === id ? {...note, ...updates} : note))
SubUpdateResp(r) ==
  /\ r \in inflight /\ r.k = "update"
  /\ inflight' = inflight \ {r}
  /\ IF r.st = "ok"
     THEN notes' = MergeId(notes, r.id, r.data[1]) /\ thrown' = thrown
     ELSE thrown' = UpdateCatch /\ notes' = notes
  /\ UNCHANGED <<remoteNotes, nextId, loading, ops, fails>>
  /\ UNCHANGED subFrame

\* deleteNote up to its await: delete().eq('id', id)
SubDelete(id) ==
  /\ SubOpen
  /\ ops' = ops + 1
  /\ \/ /\ remoteNotes' = RowsAfterDelete(id)
        /\ inflight' = inflight
             \cup {Resp("delete", id, "ok", <<>>, <<>>)}
             \cup ChangeEvents(remoteNotes, remoteNotes', ops')
        /\ Ok
     \/ /\ inflight' = inflight \cup {Resp("delete", id, "error", <<>>, <<>>)}
        /\ Fail
        /\ UNCHANGED remoteNotes
  /\ UNCHANGED <<nextId, notes, loading, thrown>>
  /\ UNCHANGED subFrame

\* deleteNote after its await: setNotes(prev => prev.filter(note => note.id !== id))
SubDeleteResp(r) ==
  /\ r \in inflight /\ r.k = "delete"
  /\ inflight' = inflight \ {r}
  /\ IF r.st = "ok"
     THEN notes' = WithoutId(notes, r.id) /\ thrown' = thrown
     ELSE thrown' = DeleteCatch /\ notes' = notes
  /\ UNCHANGED <<remoteNotes, nextId, loading, ops, fails>>
  /\ UNCHANGED subFrame

\* the component has mounted: the effect has called loadNotes() and subscribed
SubInit ==
  /\ remoteNotes = InitialRows /\ remoteTasks = {}
  /\ nextId = StoredNotes + 1 /\ nextTaskId = 1
  /\ notes = <<>> /\ filteredNotes = <<>> /\ tasks = <<>>
  /\ loading = TRUE /\ isCreating = FALSE
  /\ inflight = {Resp("load", 0, "ok", NewestFirst(InitialRows), <<>>)}
  /\ bgTimers = {} /\ runs = {}
  /\ editingNote = <<>> /\ apStatus = "idle" /\ apProcessing = FALSE /\ apTimer = <<>>
  /\ apVariant = "simulated" /\ draggedItem = <<>> /\ SignedIn
  /\ thrown = "none" /\ deletedAck = {} /\ windowCalls = [n \in NoteIds |-> 0]
  /\ ops = 0 /\ reloads = 0 /\ fails = 0 /\ selectedTags = <<>>

SubNext ==
  \/ \E e \in inflight : SubChange(e)
  \/ \E r \in inflight : SubLoadResp(r)
  \/ \E c \in CreateContents : SubCreate("t1", c)
  \/ \E r \in inflight : SubCreateResp(r)
  \/ \E n \in Range(notes), c \in Colors : SubUpdate(n.id, [color |-> c])
  \/ \E r \in inflight : SubUpdateResp(r)
  \/ \E n \in Range(notes) : SubDelete(n.id)
  \/ \E r \in inflight : SubDeleteResp(r)

SubSpec == SubInit /\ [][SubNext]_vars

\* no call of the client awaits its answer, no event is on its way and no
\* enrichment run is under way
Quiet == inflight = {} /\ runs = {}

\* a step in which loadNotes has received the rows of its query
Reloaded == \E r \in Handled : r.k = "load" /\ r.st = "ok"

\* the rows the store holds for the owner
OwnRows == {r \in remoteNotes : Matches(r, "load", 0)}

\* s holds the rows of set rows, each once
HoldsExactly(s, rows) == Range(s) = rows /\ Len(s) = Cardinality(rows)

\* C23 as stated: once a reload has completed and no other operation is in
\* flight, the local collection holds exactly the notes that the store holds
\* for the owner; in the subscribed version every change of the notes table
\* triggers such a reload.
C23_ReloadedEqualsStore ==
  [][(Reloaded /\ Quiet') => HoldsExactly(notes', OwnRows')]_vars

\* the part of it that does hold: a reload replaces the local collection with
\* the rows its query found, every change of a row of the owner sends one
\* event, and every event starts one query of the rows the store holds then
ReloadShowsItsQuery ==
  [][/\ \A r \in Handled : (r.k = "load" /\ r.st = "ok") => notes' = r.data
     /\ remoteNotes' # remoteNotes =>
          Cardinality({e \in Sent : e.k = "change"}) = 1
     /\ \A e \in Handled : e.k = "change" =>
          \E r \in Sent : r.k = "load" /\ (r.st = "ok" => r.data = SubSelect)]_vars

\* the failure path of a background run for note id has run: the catch block
\* of processNoteInBackground has sent its update of ai_processed_at and the
\* store has applied it; what is left of the block is a console.error
FailurePathRan(id) ==
  \E q \in runs :
    q.path = "bg" /\ q.stage = "mark" /\ q.st = "ok" /\ q.note.id = id

FailurePathMarksTheRow ==
  [][\A r \in Resumed :
       (r.path = "bg" /\ r.stage = "mark") =>
          /\ r.st = "ok" =>
               \A row \in remoteNotes' : row.id = r.note.id => row.ai_processed_at
          /\ notes' = notes /\ filteredNotes' = filteredNotes]_vars

\* the content of note id in the local collection
LocalContents(s, id) == {s[i].content : i \in {j \in 1..Len(s) : s[j].id = id}}

\* C25: the enrichment call of the background path is made with the content
\* the note has when the settle-delay timer fires: a run started by the 2 s
\* timer works on the content the local note has at that moment, also when
\* the note was edited after its creation.
C25_RunUsesContentAtFiring ==
  [][\A r \in Started :
       r.path = "bg" => \A c \in LocalContents(notes, r.note.id) : r.note.content = c]_vars

\* the part of it that does hold: the run works on the note as the insert
\* returned it, which is what createNote put into the local collection
RunUsesCreatedNote ==
  [][/\ \A r \in Started : r.path = "bg" => r.note \in bgTimers
     /\ \A n \in bgTimers' \ bgTimers :
          \E r \in Handled : r.k = "create" /\ r.data = <<n>> /\ n \in Range(notes')]_vars

\* the names of the fields an enrichment run writes
AiFieldNames == {"ai_tags", "ai_summary", "ai_processed_at"}

\* a and b differ in the AI fields at most
SameButAi(a, b) == \A f \in DOMAIN a \ AiFieldNames : a[f] = b[f]

\* the runs a step completes: the background run whose update was accepted
\* writes the local collections, the AIProcessor run calls onProcessingComplete
CompletedOn(path) ==
  {r \in Moved :
     /\ r.path = path
     /\ \/ r.stage = "upd" /\ r.st = "ok" /\ (path = "bg" \/ r.res.tasks = <<>>)
        \/ r.stage = "tasks" /\ path = "ap"}

\* the completion of run r leaves every field of the local note other than
\* the AI fields as it was just before
KeepsUserFields(r) ==
  \A i \in 1..Len(notes) :
    notes[i].id = r.note.id =>
      /\ i <= Len(notes') /\ notes'[i].id = r.note.id
      /\ SameButAi(notes[i], notes'[i])

\* C26: when an enrichment run completes, the local record of the note
\* changes in ai_tags, ai_summary and ai_processed_at only; title, content,
\* tags, pinned, color and position keep the values the local collection had
\* just before, including what the user saved while the run was in flight;
\* on the background path and on the onProcessingComplete path alike.
C26_CompletionKeepsUserFields ==
  [][\A r \in CompletedOn("bg") \cup CompletedOn("ap") : KeepsUserFields(r)]_vars

\* the part of it that does hold: the background path
BgCompletionKeepsUserFields ==
  [][\A r \in CompletedOn("bg") : KeepsUserFields(r)]_vars

\* the runs of the mounted AIProcessor that have not finished
MountedRuns == {r \in runs : r.path = "ap" /\ r.live}

ClickWaitsForProcessing ==
  [][\A r \in Started :
       r.path = "ap" => IF r.auto THEN apTimer # <<>> ELSE ~apProcessing]_vars

\* a step that opens the edit modal
Opening == editingNote = <<>> /\ editingNote' # <<>>

\* C28: the edit modal opens on an explicit edit action of the user only:
\* once it is closed, editingNote stays null until the next handleNoteEdit
\* call, also when an enrichment run started while the modal was open
\* completes afterwards.
C28_ModalOpensOnEditOnly ==
  [][Opening => \E n \in Range(filteredNotes) : HandleNoteEdit(n)]_vars

\* the part of it that does hold: whatever opens the modal other than
\* handleNoteEdit is the completion of an AIProcessor run, and the background
\* path never touches editingNote
OnlyProcessorRunsReopen ==
  [][(Opening /\ ~\E n \in Range(filteredNotes) : HandleNoteEdit(n)) =>
        \E r \in runs \ runs' :
          r.path = "ap" /\ ~r.live /\ editingNote'[1].id = r.note.id]_vars

\* the records of note id in a collection and in a set of rows
LocalOf(s, id) == {n \in Range(s) : n.id = id}
StoredOf(rows, id) == {r \in rows : r.id = id /\ Matches(r, "load", 0)}

\* the local collection shows note id as the store holds it: the created
\* note is there, with the values last written, and a deleted note is not
InStep(id) == LocalOf(notes, id) = StoredOf(remoteNotes, id)
InStepAfter(id) == LocalOf(notes', id) = StoredOf(remoteNotes', id)

\* C29: a reload started before a createNote, updateNote or deleteNote
\* completed does not undo that operation locally: when its answer arrives
\* after the operation's local update, the local collection still holds the
\* created note and the updated values, and not the deleted note.
C29_ReloadUndoesNothing ==
  [][Reloaded => \A id \in NoteIds : InStep(id) => InStepAfter(id)]_vars

\* ------------------------------------------------------- the tag sidebar
\* tags.some(tag => note.tags?.includes(tag))
CarriesOneOf(note, tags) == \E i \in 1..Len(tags) : tags[i] \in Range(note.tags)

RECURSIVE FilterByTags(_, _)
\* notes.filter(note => tags.some(tag => note.tags?.includes(tag)))
FilterByTags(s, tags) ==
  IF s = <<>> THEN <<>>
  ELSE IF CarriesOneOf(Head(s), tags)
       THEN <<Head(s)>> \o FilterByTags(Tail(s), tags)
       ELSE FilterByTags(Tail(s), tags)

RECURSIVE WithoutTag(_, _)
\* selectedTags.filter(t => t !== tag)
WithoutTag(tags, tag) ==
  IF tags = <<>> THEN <<>>
  ELSE IF Head(tags) = tag THEN WithoutTag(Tail(tags), tag)
       ELSE <<Head(tags)>> \o WithoutTag(Tail(tags), tag)

\* TagSidebar.handleTagClick: the selection with the tag taken out or added
Toggled(tags, tag) ==
  IF tag \in Range(tags) THEN WithoutTag(tags, tag) ELSE Append(tags, tag)

\* Array.from(new Set(notes.flatMap(note => note.tags || [])))
AllTags == UNION {Range(notes[i].tags) : i \in 1..Len(notes)}

\* handleTagFilter(tags), called by the sidebar with the toggled selection;
\* no date is selected
HandleTagFilter(tags) ==
  /\ GridOpen /\ ops < MaxOps
  /\ ops' = ops + 1
  /\ selectedTags' = tags
  /\ filteredNotes' = IF tags = <<>> THEN notes ELSE FilterByTags(notes, tags)
  /\ UNCHANGED <<remoteVars, notes, tasks, loading, isCreating, inflight,
                 enrichVars, apVars, apVariant, draggedItem, authVars, thrown,
                 deletedAck, reloads, fails>>

HandleTagClick(tag) == HandleTagFilter(Toggled(selectedTags, tag))

\* a store of two notes, the newer one tagged "work", the older one untagged
TagRows ==
  {[NewNote(1, "t1", PlainContent, FALSE) EXCEPT !.tags = <<WorkTag>>],
   NewNote(0, "t1", PlainContent, FALSE)}

TagInit ==
  /\ remoteNotes = TagRows /\ remoteTasks = {}
  /\ nextId = StoredNotes + 1 /\ nextTaskId = 1
  /\ notes = <<>> /\ filteredNotes = <<>> /\ tasks = <<>>
  /\ loading = TRUE /\ isCreating = FALSE
  /\ inflight = {Resp("load", 0, "ok", SeqOfRows(TagRows), <<>>),
                 Resp("loadTasks", 0, "ok", <<>>, <<>>)}
  /\ bgTimers = {} /\ runs = {}
  /\ editingNote = <<>> /\ apStatus = "idle" /\ apProcessing = FALSE /\ apTimer = <<>>
  /\ apVariant = "simulated" /\ draggedItem = <<>> /\ SignedIn
  /\ thrown = "none" /\ deletedAck = {} /\ windowCalls = [n \in NoteIds |-> 0]
  /\ ops = 0 /\ reloads = 0 /\ fails = 0 /\ selectedTags = <<>>

\* the sidebar beside the grid: the user selects tags, and creates, pins,
\* colors and deletes notes
TagNext ==
  \/ \E r \in inflight : LoadResp(r)
  \/ \E r \in inflight : LoadTasksResp(r)
  \/ \E tag \in AllTags : HandleTagClick(tag)
  \/ \E c \in CreateContents : CreateNote("t1", c, FALSE)
  \/ \E r \in inflight : CreateResp(r)
  \/ \E n \in Range(filteredNotes) : PinToggle(n)
  \/ \E n \in Range(filteredNotes), c \in Colors : ColorChange(n, c)
  \/ \E n \in Range(filteredNotes) : TileDelete(n)
  \/ \E r \in inflight : UpdateResp(r)
  \/ \E r \in inflight : DeleteResp(r)

TagSpec == TagInit /\ [][TagNext]_vars

\* C30: while one or more tags are selected in the tag sidebar, every note of
\* the rendered collection carries at least one of the selected tags, also
\* after a note is created, updated or deleted while the selection is active.
C30_RenderedNotesCarrySelectedTag ==
  selectedTags # <<>> =>
    \A i \in 1..Len(filteredNotes) : CarriesOneOf(filteredNotes[i], selectedTags)

\* the part of it that does hold: the step that changes the selection leaves
\* the rendered collection filtered by it
SelectionFiltersAtOnce ==
  [][selectedTags' # selectedTags =>
       /\ selectedTags' # <<>> =>
            \A i \in 1..Len(filteredNotes') :
              CarriesOneOf(filteredNotes'[i], selectedTags')
       /\ \A n \in Range(notes) :
            (selectedTags' = <<>> \/ CarriesOneOf(n, selectedTags')) =>
               n \in Range(filteredNotes')]_vars
====
